---- MODULE Spec2Model ----
(***************************************************************************)
(* Certificate location and selection of the EPak fix tool:                *)
(* PDFCertificateExtractor (pdfCertificateExtractor.js) driving            *)
(* CertificateParser.parseCertificateFromBuffer (certificateParser.js).    *)
(*                                                                         *)
(* Byte buffers are sequences of 0..255; JavaScript's 0-based index i is   *)
(* position i+1 of the sequence.  The node-forge calls the code makes      *)
(* (asn1.fromDer, asn1.toDer, pkcs7.messageFromAsn1) are modelled by what  *)
(* they do to the bytes the code hands them.                               *)
(***************************************************************************)
EXTENDS Integers, Sequences, FiniteSets, TLC

(***************************************************************************)
(* JavaScript values the code relies on.                                   *)
(***************************************************************************)
\* bytes[i] of a JS array: undefined outside 0..length-1 (written Undef).
Undef == -1

ByteAt(bytes, i) ==
    IF i >= 0 /\ i < Len(bytes) THEN bytes[i + 1] ELSE Undef

\* ToInt32 of an operand of | or <<: undefined counts as 0.
OrZero(b) == IF b = Undef THEN 0 ELSE b

\* (acc << 8) | b on 32-bit signed integers: the low 24 bits of acc move up,
\* bit 23 of acc becomes the sign.
ShiftOr(acc, b) ==
    LET low24 == acc % 16777216
    IN  IF low24 >= 8388608
        THEN ((low24 - 8388608) * 256 + OrZero(b)) - 2147483647 - 1
        ELSE low24 * 256 + OrZero(b)

\* let len = 0; for (j = 0; j < n; j++) len = (len << 8) | bytes[at + j];
RECURSIVE ReadLength(_, _, _, _)
ReadLength(bytes, at, n, acc) ==
    IF n <= 0 THEN acc
    ELSE ReadLength(bytes, at + 1, n - 1, ShiftOr(acc, ByteAt(bytes, at)))

\* Array.prototype.slice(start, end): negative indexes count from the end,
\* both are clamped to 0..length.
Clamp(len, k) ==
    IF k < 0 THEN (IF len + k < 0 THEN 0 ELSE len + k)
    ELSE IF k > len THEN len ELSE k

JsSlice(bytes, start, end) ==
    LET s == Clamp(Len(bytes), start)
        e == Clamp(Len(bytes), end)
    IN  IF e <= s THEN << >> ELSE SubSeq(bytes, s + 1, e)

(***************************************************************************)
(* forge.asn1.fromDer (strict, parseAllBytes), as the code calls it.       *)
(* A node is [tagClass, type, constructed, kids, content]; tagClass is     *)
(* forge's b1 & 0xC0 (0, 64, 128 or 192), type is b1 & 0x1F.               *)
(***************************************************************************)
DerError(kind) == [ok |-> FALSE, err |-> kind]

RECURSIVE DerNode(_, _, _)
RECURSIVE DerKids(_, _, _, _)
RECURSIVE DerKidsIndefinite(_, _, _, _)

\* the element read: tag byte b1, children or content, and where it ends
DerElement(b1, kids, content, next) ==
    [ok |-> TRUE,
     node |-> [tagClass |-> (b1 \div 64) * 64, type |-> b1 % 32,
               constructed |-> (b1 \div 32) % 2 = 1,
               kids |-> kids, content |-> content],
     next |-> next]

\* a constructed element whose children were read as r
DerConstructed(b1, r, next) ==
    IF r.ok THEN DerElement(b1, r.kids, << >>, IF next < 0 THEN r.next ELSE next)
    ELSE r

\* definite length len after a header of hdr bytes
DerDefinite(bytes, pos, remaining, b1, hdr, len) ==
    IF len < 0 THEN DerError("NegativeLength")
    ELSE IF len > remaining - hdr THEN DerError("TooFew")
    ELSE IF (b1 \div 32) % 2 = 1
         THEN DerConstructed(b1, DerKids(bytes, pos + hdr, len, << >>), pos + hdr + len)
         ELSE DerElement(b1, << >>, JsSlice(bytes, pos + hdr, pos + hdr + len),
                         pos + hdr + len)

\* the element with tag byte b1 and first length byte b2
DerTagged(bytes, pos, remaining, b1, b2) ==
    IF b2 = 128
    THEN IF (b1 \div 32) % 2 = 1
         THEN DerConstructed(b1, DerKidsIndefinite(bytes, pos + 2, remaining - 2, << >>), -1)
         ELSE DerError("IndefinitePrimitive")
    ELSE IF b2 < 128 THEN DerDefinite(bytes, pos, remaining, b1, 2, b2)
    ELSE IF b2 % 128 > remaining - 2 THEN DerError("TooFew")
    ELSE DerDefinite(bytes, pos, remaining, b1, 2 + (b2 % 128),
                     ReadLength(bytes, pos + 2, b2 % 128, 0))

\* _fromDer(bytes, remaining): one element starting at 0-based pos.
DerNode(bytes, pos, remaining) ==
    IF remaining < 2 THEN DerError("TooFew")
    ELSE DerTagged(bytes, pos, remaining, ByteAt(bytes, pos), ByteAt(bytes, pos + 1))

\* value.push(r) and on to the next child
DerKidsNext(bytes, pos, length, acc, r) ==
    IF r.ok
    THEN DerKids(bytes, r.next, length - (r.next - pos), Append(acc, r.node))
    ELSE r

\* while (length > 0) value.push(_fromDer(bytes, length, ...))
DerKids(bytes, pos, length, acc) ==
    IF length <= 0 THEN [ok |-> TRUE, kids |-> acc]
    ELSE DerKidsNext(bytes, pos, length, acc, DerNode(bytes, pos, length))

DerKidsIndefiniteNext(bytes, pos, remaining, acc, r) ==
    IF r.ok
    THEN DerKidsIndefinite(bytes, r.next, remaining - (r.next - pos), Append(acc, r.node))
    ELSE r

\* indefinite length: elements up to the 00 00 terminator
DerKidsIndefinite(bytes, pos, remaining, acc) ==
    IF remaining < 2 THEN DerError("TooFew")
    ELSE IF ByteAt(bytes, pos) = 0 /\ ByteAt(bytes, pos + 1) = 0
         THEN [ok |-> TRUE, kids |-> acc, next |-> pos + 2]
    ELSE DerKidsIndefiniteNext(bytes, pos, remaining, acc, DerNode(bytes, pos, remaining))

\* parseAllBytes: bytes left after the element are an error
DerWhole(bytes, r) ==
    IF ~r.ok THEN r
    ELSE IF r.next # Len(bytes) THEN DerError("Unparsed DER bytes")
    ELSE [ok |-> TRUE, node |-> r.node]

fromDer(bytes) == DerWhole(bytes, DerNode(bytes, 0, Len(bytes)))

\* asn1.value && Array.isArray(asn1.value): value is an array exactly for a
\* constructed element.
ValueIsArray(node) == node.constructed

(***************************************************************************)
(* forge.asn1.toDer: tag byte, definite length in the shortest form, then  *)
(* the value (the encodings of the children of a constructed element).     *)
(***************************************************************************)
DerLength(n) ==
    IF n < 128 THEN << n >>
    ELSE IF n < 256 THEN << 129, n >>
    ELSE IF n < 65536 THEN << 130, n \div 256, n % 256 >>
    ELSE << 131, n \div 65536, (n \div 256) % 256, n % 256 >>

RECURSIVE toDer(_)
RECURSIVE toDerAll(_)
toDer(node) ==
    LET b1  == node.tagClass + node.type + (IF node.constructed THEN 32 ELSE 0)
        val == IF node.constructed THEN toDerAll(node.kids) ELSE node.content
    IN  << b1 >> \o DerLength(Len(val)) \o val

toDerAll(kids) ==
    IF kids = << >> THEN << >> ELSE toDer(Head(kids)) \o toDerAll(Tail(kids))

(***************************************************************************)
(* ASN.1 types and object identifiers the code names.  An OID is kept as   *)
(* its DER content bytes; the dotted strings of the source are these.      *)
(***************************************************************************)
TypeInteger  == 2      \* forge.asn1.Type.INTEGER
TypeBitString == 3     \* forge.asn1.Type.BITSTRING
TypeOid      == 6      \* forge.asn1.Type.OID
TypeSequence == 16     \* forge.asn1.Type.SEQUENCE
TypeSet      == 17     \* forge.asn1.Type.SET
TypeUtcTime  == 23     \* forge.asn1.Type.UTCTIME

OidCN          == << 85, 4, 3 >>     \* '2.5.4.3'
OidST          == << 85, 4, 8 >>     \* '2.5.4.8'
OidO           == << 85, 4, 10 >>    \* '2.5.4.10'
OidT           == << 85, 4, 12 >>    \* '2.5.4.12'
OidPostalCode  == << 85, 4, 17 >>    \* '2.5.4.17'
OidDnQualifier == << 85, 4, 46 >>    \* '2.5.4.46'
OidRsa         == << 42, 134, 72, 134, 247, 13, 1, 1, 1 >>  \* rsaEncryption
OidEc          == << 42, 134, 72, 206, 61, 2, 1 >>          \* id-ecPublicKey
OidSignedData  == << 42, 134, 72, 134, 247, 13, 1, 7, 2 >>  \* pkcs7 signedData
OidData        == << 42, 134, 72, 134, 247, 13, 1, 7, 1 >>  \* pkcs7 data

\* static NA = 'NA'; text is kept as its character codes.
NA == << 78, 65 >>

(***************************************************************************)
(* CertificateParser (certificateParser.js): the identity decoders.        *)
(* Text is a sequence of character codes; "absent" is JS undefined.        *)
(***************************************************************************)
Absent == << -1 >>

IsDigit(c) == c >= 48 /\ c <= 57
IsSpace(c) == c \in {9, 10, 11, 12, 13, 32}

RECURSIVE SkipSpace(_)
SkipSpace(t) == IF t # << >> /\ IsSpace(Head(t)) THEN SkipSpace(Tail(t)) ELSE t

RECURSIVE DigitsValue(_, _)
DigitsValue(t, acc) ==
    IF t = << >> \/ ~IsDigit(Head(t)) THEN acc
    ELSE DigitsValue(Tail(t), acc * 10 + (Head(t) - 48))

HexDigit(c) ==
    IF IsDigit(c) THEN c - 48
    ELSE IF c >= 97 /\ c <= 102 THEN c - 87
    ELSE IF c >= 65 /\ c <= 70 THEN c - 55
    ELSE -1

RECURSIVE HexValue(_, _)
HexValue(t, acc) ==
    IF t = << >> \/ HexDigit(Head(t)) < 0 THEN acc
    ELSE HexValue(Tail(t), acc * 16 + HexDigit(Head(t)))

\* the digits of a parseInt argument after white space, sign and prefix
ParseDigits(neg, hex, body) ==
    IF body # << >> /\ (IF hex THEN HexDigit(Head(body)) >= 0 ELSE IsDigit(Head(body)))
    THEN [nan |-> FALSE,
          val |-> (IF neg THEN -1 ELSE 1) *
                  (IF hex THEN HexValue(body, 0) ELSE DigitsValue(body, 0))]
    ELSE [nan |-> TRUE, val |-> 0]

ParsePrefix(neg, u) ==
    IF Len(u) >= 2 /\ u[1] = 48 /\ u[2] \in {88, 120}
    THEN ParseDigits(neg, TRUE, Tail(Tail(u)))
    ELSE ParseDigits(neg, FALSE, u)

ParseSign(t) ==
    IF t # << >> /\ Head(t) \in {43, 45}
    THEN ParsePrefix(Head(t) = 45, Tail(t))
    ELSE ParsePrefix(FALSE, t)

\* parseInt(text) without a radix: leading white space, a sign, a 0x prefix,
\* then the longest run of digits; NaN when there is none.
parseInt(text) == ParseSign(SkipSpace(text))

\* a JS string or undefined used as a condition
Truthy(text) == text # Absent /\ text # << >>

\* !isNaN(n) && n > bound
NumberAbove(n, bound) == ~n.nan /\ n.val > bound

getPinCode(postalCode) ==
    IF Truthy(postalCode) /\ NumberAbove(parseInt(postalCode), 0)
    THEN postalCode
    ELSE NA

getBirthYearFrom1900(dnQualifier) ==
    IF Truthy(dnQualifier) /\ Len(dnQualifier) >= 4
       /\ NumberAbove(parseInt(SubSeq(dnQualifier, 1, 4)), 1899)
    THEN SubSeq(dnQualifier, 1, 4)
    ELSE NA

getBirthYear(dnQualifier) ==
    IF Truthy(dnQualifier) /\ Len(dnQualifier) >= 4
       /\ NumberAbove(parseInt(SubSeq(dnQualifier, 1, 4)), 1900)
    THEN SubSeq(dnQualifier, 1, 4)
    ELSE NA

getGenderInfoUpperOnly(dnQualifier) ==
    IF Truthy(dnQualifier) /\ Len(dnQualifier) >= 5 /\ dnQualifier[5] \in {77, 70, 84}
    THEN << dnQualifier[5] >>
    ELSE NA

\* 'MmFfTt'.indexOf(gender) >= 0, then toUpperCase
getGenderInfo(dnQualifier) ==
    IF Truthy(dnQualifier) /\ Len(dnQualifier) >= 5
    THEN LET gender == dnQualifier[5]
         IN  IF gender \in {77, 109, 70, 102, 84, 116}
             THEN << IF gender >= 97 THEN gender - 32 ELSE gender >>
             ELSE NA
    ELSE NA

(***************************************************************************)
(* Attribute maps.  A map is the sequence of [oid, value] assignments in   *)
(* the order the code makes them; a later assignment to the same key       *)
(* replaces an earlier one.                                                *)
(***************************************************************************)
RECURSIVE Lookup(_, _)
Lookup(attrs, oid) ==
    IF attrs = << >> THEN Absent
    ELSE LET last == attrs[Len(attrs)]
         IN  IF last.oid = oid THEN last.value
             ELSE Lookup(SubSeq(attrs, 1, Len(attrs) - 1), oid)

\* a || NA
OrNA(text) == IF Truthy(text) THEN text ELSE NA

\* forge.util.bytesToHex
HexChar(d) == IF d < 10 THEN 48 + d ELSE 87 + d
RECURSIVE bytesToHex(_)
bytesToHex(bytes) ==
    IF bytes = << >> THEN << >>
    ELSE << HexChar(Head(bytes) \div 16), HexChar(Head(bytes) % 16) >>
         \o bytesToHex(Tail(bytes))

\* null (no such field)
NullNode ==
    [tagClass |-> -1, type |-> -1, constructed |-> FALSE,
     kids |-> << >>, content |-> << >>]

\* String(array) of ASN.1 objects, what decodeUtf8 is handed for a
\* constructed value: "[object Object]" joined by commas.
ObjectText == << 91, 111, 98, 106, 101, 99, 116, 32, 79, 98, 106, 101, 99, 116, 93 >>
RECURSIVE ArrayText(_)
ArrayText(n) ==
    IF n <= 0 THEN << >>
    ELSE IF n = 1 THEN ObjectText
    ELSE ObjectText \o << 44 >> \o ArrayText(n - 1)

\* One RDN of extractAsn1Attributes: "skip", "throw" or the assignment.
Asn1Rdn(rdn) ==
    IF ~(rdn.type = TypeSet /\ rdn.constructed /\ Len(rdn.kids) > 0)
    THEN [kind |-> "skip"]
    ELSE LET attrSeq == rdn.kids[1]
         IN  IF attrSeq.type # TypeSequence THEN [kind |-> "skip"]
             ELSE IF ~attrSeq.constructed
                  THEN IF Len(attrSeq.content) >= 2
                       THEN [kind |-> "throw"]   \* derToOid(undefined)
                       ELSE [kind |-> "skip"]
             ELSE IF Len(attrSeq.kids) < 2 THEN [kind |-> "skip"]
             ELSE LET oidNode == attrSeq.kids[1]
                      valNode == attrSeq.kids[2]
                  IN  IF oidNode.constructed THEN [kind |-> "throw"]
                      ELSE [kind |-> "set", oid |-> oidNode.content,
                            value |-> IF valNode.constructed
                                      THEN ArrayText(Len(valNode.kids))
                                      ELSE valNode.content]

RECURSIVE Asn1Rdns(_, _)
Asn1Rdns(rdns, acc) ==
    IF rdns = << >> THEN [ok |-> TRUE, attrs |-> acc]
    ELSE LET r == Asn1Rdn(Head(rdns))
         IN  IF r.kind = "throw" THEN [ok |-> FALSE]
             ELSE IF r.kind = "skip" THEN Asn1Rdns(Tail(rdns), acc)
             ELSE Asn1Rdns(Tail(rdns), Append(acc, [oid |-> r.oid, value |-> r.value]))

extractAsn1Attributes(nameAsn1) ==
    IF nameAsn1 = NullNode \/ ~nameAsn1.constructed
    THEN [ok |-> TRUE, attrs |-> << >>]
    ELSE Asn1Rdns(nameAsn1.kids, << >>)

(***************************************************************************)
(* CertificateParser.extractFromAsn1: the manual TBSCertificate walk.      *)
(* endDate is [kind |-> "zero"] for the literal 0, [kind |-> "time",       *)
(* at |-> fields] for the getTime() of a Date set from the six fields, and *)
(* [kind |-> "invalid"] for the NaN of an Invalid Date.                    *)
(***************************************************************************)
ZeroDate == [kind |-> "zero"]

TypeGeneralizedTime == 24

\* parseInt(text.substr(start, n), 10)
DecimalAt(text, start, n) ==
    LET u == SkipSpace(JsSlice(text, start, start + n))
    IN  ParseDigits(u # << >> /\ Head(u) = 45, FALSE,
                    IF u # << >> /\ Head(u) \in {43, 45} THEN Tail(u) ELSE u)

\* the six numbers of a time text: the year of yearLen digits, then month,
\* day, hours, minutes and seconds of two digits each
TimeFields(text, yearLen) ==
    [k \in 1..6 |-> DecimalAt(text, IF k = 1 THEN 0 ELSE yearLen + 2 * (k - 2),
                              IF k = 1 THEN yearLen ELSE 2)]

\* setUTCFullYear(YYYY, MM, DD) and setUTCHours(hh, mm, ss): a NaN among
\* them gives an Invalid Date; the fields are kept as they were set
DateFrom(YYYY, f, ss) ==
    IF YYYY.nan \/ ss.nan \/ \E k \in 2..5 : f[k].nan
    THEN [kind |-> "invalid"]
    ELSE [kind |-> "time",
          at |-> << YYYY.val, f[2].val - 1, f[3].val, f[4].val, f[5].val, ss.val >>]

\* year = (year >= 50) ? 1900 + year : 2000 + year
Century(yy) ==
    IF yy.nan THEN yy
    ELSE [nan |-> FALSE, val |-> IF yy.val >= 50 THEN 1900 + yy.val ELSE 2000 + yy.val]

\* the Date of a time text whose year has yearLen digits; a UTCTime may
\* leave the seconds out, and has them only when it is longer than 11
\* characters and the one after the minutes is no sign of an offset
TimeDate(text, yearLen, f) ==
    IF yearLen = 4 THEN DateFrom(f[1], f, f[6])
    ELSE DateFrom(Century(f[1]), f,
                  IF Len(text) > 11 /\ text[11] \notin {43, 45}
                  THEN f[6] ELSE [nan |-> FALSE, val |-> 0])

\* forge.asn1.utcTimeToDate (YYMMDDhhmm[ss]Z; no offset is modelled) and
\* forge.asn1.generalizedTimeToDate (YYYYMMDDhhmmssZ): they read the fields
\* at fixed places and do not throw on a text
TimeToDateOf(text, yearLen) == TimeDate(text, yearLen, TimeFields(text, yearLen))

utcTimeToDate(utc) == TimeToDateOf(utc, 2)

generalizedTimeToDate(gentime) == TimeToDateOf(gentime, 4)

\* one field of the for loop over tbsCertificate.value
TbsField(w, field) ==
    LET serial1 ==
            IF field.type = TypeInteger /\ ~Truthy(w.serial)
            THEN (IF field.constructed THEN << >> ELSE bytesToHex(field.content))
            ELSE w.serial
        validity1 ==
            IF /\ field.type = TypeSequence
               /\ field.constructed /\ Len(field.kids) = 2
               /\ w.validity = ZeroDate
               /\ ~field.kids[2].constructed
            THEN utcTimeToDate(field.kids[2].content)
            ELSE w.validity
        isName ==
            /\ field.type = TypeSequence
            /\ field.constructed /\ Len(field.kids) > 0
            /\ field.kids[1].type = TypeSet
        issuer1  == IF isName /\ w.issuer = NullNode THEN field ELSE w.issuer
        subject1 == IF isName /\ w.issuer # NullNode /\ w.subject = NullNode
                    THEN field ELSE w.subject
    IN  [serial |-> serial1, validity |-> validity1,
         issuer |-> issuer1, subject |-> subject1]

RECURSIVE TbsWalk(_, _)
TbsWalk(fields, w) ==
    IF fields = << >> THEN w ELSE TbsWalk(Tail(fields), TbsField(w, Head(fields)))

Thrown(kind) == [ok |-> FALSE, err |-> kind]

\* the details object built from the fields the walk found
Asn1Details(w, subjectAttrs, issuerAttrs, dnQualifier, postalCode) ==
    [serialNumber |-> OrNA(w.serial),
     endDate |-> w.validity,
     signerName |-> OrNA(Lookup(subjectAttrs, OidCN)),
     tpin |-> OrNA(Lookup(subjectAttrs, OidT)),
     state |-> OrNA(Lookup(subjectAttrs, OidST)),
     gender |-> IF Truthy(dnQualifier) THEN getGenderInfo(dnQualifier) ELSE NA,
     yob |-> IF Truthy(dnQualifier) THEN getBirthYear(dnQualifier) ELSE NA,
     pincode |-> IF Truthy(postalCode) THEN getPinCode(postalCode) ELSE NA,
     issuerName |-> OrNA(Lookup(issuerAttrs, OidCN)),
     issuerOrganisation |-> OrNA(Lookup(issuerAttrs, OidO))]

Asn1Extracted(w, subjectAttrs, issuerAttrs) ==
    IF ~subjectAttrs.ok \/ ~issuerAttrs.ok
    THEN Thrown("Failed to extract from ASN.1")
    ELSE [ok |-> TRUE,
          details |-> Asn1Details(w, subjectAttrs.attrs, issuerAttrs.attrs,
                                  Lookup(subjectAttrs.attrs, OidDnQualifier),
                                  Lookup(subjectAttrs.attrs, OidPostalCode))]

Asn1Walked(w) ==
    Asn1Extracted(w, extractAsn1Attributes(w.subject), extractAsn1Attributes(w.issuer))

extractFromAsn1(asn1Cert) ==
    IF ~asn1Cert.constructed \/ asn1Cert.kids = << >>
    THEN Thrown("Failed to extract from ASN.1")
    ELSE Asn1Walked(
             TbsWalk(IF asn1Cert.kids[1].constructed THEN asn1Cert.kids[1].kids ELSE << >>,
                     [serial |-> << >>, validity |-> ZeroDate,
                      issuer |-> NullNode, subject |-> NullNode]))

(***************************************************************************)
(* forge.pki.certificateFromAsn1 as parseCertificateFromBuffer and         *)
(* pkcs7.messageFromAsn1 use it: the X.509 shape is validated, then the    *)
(* public-key algorithm must be rsaEncryption.                             *)
(***************************************************************************)
IsUniversal(node, type, constructed) ==
    node.tagClass = 0 /\ node.type = type /\ node.constructed = constructed

IsAlgorithmIdentifier(node) ==
    /\ IsUniversal(node, TypeSequence, TRUE)
    /\ Len(node.kids) >= 1
    /\ IsUniversal(node.kids[1], TypeOid, FALSE)

\* tbsCertificate.value without the optional [0] version
TbsBody(tbs) ==
    IF tbs.kids # << >> /\ tbs.kids[1].tagClass = 128 /\ tbs.kids[1].type = 0
    THEN Tail(tbs.kids) ELSE tbs.kids

IsSpki(node) ==
    /\ IsUniversal(node, TypeSequence, TRUE)
    /\ Len(node.kids) >= 2
    /\ IsAlgorithmIdentifier(node.kids[1])
    /\ IsUniversal(node.kids[2], TypeBitString, FALSE)

IsX509(node) ==
    /\ IsUniversal(node, TypeSequence, TRUE)
    /\ Len(node.kids) = 3
    /\ IsUniversal(node.kids[1], TypeSequence, TRUE)
    /\ IsAlgorithmIdentifier(node.kids[2])
    /\ IsUniversal(node.kids[3], TypeBitString, FALSE)
    /\ LET body == TbsBody(node.kids[1])
       IN  /\ Len(body) >= 6
           /\ IsUniversal(body[1], TypeInteger, FALSE)
           /\ IsAlgorithmIdentifier(body[2])
           /\ IsUniversal(body[3], TypeSequence, TRUE)
           /\ IsUniversal(body[4], TypeSequence, TRUE)
           /\ IsUniversal(body[5], TypeSequence, TRUE)
           /\ IsSpki(body[6])

\* pki.RDNAttributesAsArray: every attribute of every RDN set, in order
RECURSIVE SetAttributes(_, _)
SetAttributes(attrs, acc) ==
    IF attrs = << >> THEN [ok |-> TRUE, attrs |-> acc]
    ELSE LET a == Head(attrs)
         IN  IF ~a.constructed \/ Len(a.kids) < 2 \/ a.kids[1].constructed
                \/ a.kids[2].constructed
             THEN [ok |-> FALSE]
             ELSE SetAttributes(Tail(attrs),
                     Append(acc, [oid |-> a.kids[1].content, value |-> a.kids[2].content]))

RECURSIVE RDNAttributesAsArray(_, _)
RDNAttributesAsArray(rdns, acc) ==
    IF rdns = << >> THEN [ok |-> TRUE, attrs |-> acc]
    ELSE IF ~Head(rdns).constructed THEN [ok |-> FALSE]
    ELSE LET r == SetAttributes(Head(rdns).kids, acc)
         IN  IF r.ok THEN RDNAttributesAsArray(Tail(rdns), r.attrs) ELSE r

\* the validity validator: UTCTime, GeneralizedTime, UTCTime,
\* GeneralizedTime, each optional and each capturing the element it matches
ValidityValidators == << TypeUtcTime, TypeGeneralizedTime, TypeUtcTime, TypeGeneralizedTime >>

RECURSIVE ValidityCaptured(_, _, _)
ValidityCaptured(elements, validators, acc) ==
    IF validators = << >> THEN acc
    ELSE IF elements # << >> /\ IsUniversal(Head(elements), Head(validators), FALSE)
    THEN ValidityCaptured(Tail(elements), Tail(validators), Append(acc, Head(elements)))
    ELSE ValidityCaptured(elements, Tail(validators), acc)

\* the captured time decoded by its type
TimeToDate(time) ==
    IF time.type = TypeUtcTime THEN utcTimeToDate(time.content)
    ELSE generalizedTimeToDate(time.content)

\* the certificate object of a validated X.509 structure: the key must be
\* RSA, and exactly two validity times must have been captured
X509Fields(node, body, validity, subject, issuer) ==
    IF body[6].kids[1].kids[1].content # OidRsa THEN Thrown("OID is not RSA")
    ELSE IF Len(validity) # 2 \/ ~subject.ok \/ ~issuer.ok
    THEN Thrown("other")
    ELSE [ok |-> TRUE,
          cert |-> [serialNumber |-> bytesToHex(body[1].content),
                    notAfter |-> TimeToDate(validity[2]),
                    subject |-> subject.attrs,
                    issuer |-> issuer.attrs,
                    asn1 |-> node]]

X509Body(node, body) ==
    X509Fields(node, body, ValidityCaptured(body[4].kids, ValidityValidators, << >>),
               RDNAttributesAsArray(body[5].kids, << >>),
               RDNAttributesAsArray(body[3].kids, << >>))

\* [ok, cert] or the error whose message the caller inspects
certificateFromAsn1(node) ==
    IF ~IsX509(node) THEN Thrown("X509v3 Certificate")
    ELSE X509Body(node, TbsBody(node.kids[1]))

\* CertificateParser.getAttributes and extractAadhaarSignDetails: forge
\* names CN, ST, O by short name and every attribute by its OID; it has no
\* short name 'T'.
AadhaarSignDetails(cert, dnQualifier, postalCode) ==
    [serialNumber |-> cert.serialNumber,
     endDate |-> cert.notAfter,
     signerName |-> OrNA(Lookup(cert.subject, OidCN)),
     tpin |-> OrNA(Absent),
     state |-> OrNA(Lookup(cert.subject, OidST)),
     gender |-> getGenderInfo(dnQualifier),
     yob |-> getBirthYear(dnQualifier),
     pincode |-> getPinCode(postalCode),
     issuerName |-> OrNA(Lookup(cert.issuer, OidCN)),
     issuerOrganisation |-> OrNA(Lookup(cert.issuer, OidO))]

extractAadhaarSignDetails(cert) ==
    AadhaarSignDetails(cert, Lookup(cert.subject, OidDnQualifier),
                       Lookup(cert.subject, OidPostalCode))

(***************************************************************************)
(* CertificateParser.parseCertificateFromBuffer.                           *)
(***************************************************************************)
\* 'BEGIN CERTIFICATE'
BeginCertificate ==
    << 66, 69, 71, 73, 78, 32, 67, 69, 82, 84, 73, 70, 73, 67, 65, 84, 69 >>

Includes(bytes, pat) ==
    \E i \in 1..(Len(bytes) - Len(pat) + 1) :
        /\ bytes[i] = pat[1]
        /\ SubSeq(bytes, i, i + Len(pat) - 1) = pat

StandardParsedAnyCause(c, manual) ==
    IF c.ok THEN [ok |-> TRUE, details |-> extractAadhaarSignDetails(c.cert)]
    ELSE manual

\* the catch of the standard path: two messages lead to the manual walk
StandardParsed(c, manual) ==
    IF c.ok THEN [ok |-> TRUE, details |-> extractAadhaarSignDetails(c.cert)]
    ELSE IF c.err \in {"OID is not RSA", "X509v3 Certificate"} THEN manual
    ELSE Thrown(c.err)

\* the catch of the PEM branch (lines 56-59) and the DER branch: the bytes
\* of the buffer itself are decoded as DER; after a failed
\* certificateFromPem they go to the manual walk
BufferDecoded(pem, asn1) ==
    IF ~asn1.ok THEN Thrown(asn1.err)
    ELSE IF pem THEN extractFromAsn1(asn1.node)
    ELSE StandardParsed(certificateFromAsn1(asn1.node), extractFromAsn1(asn1.node))

\* the base64 alphabet: A-Z, a-z, 0-9, + and /
Base64Char(v) ==
    IF v < 26 THEN 65 + v
    ELSE IF v < 52 THEN 71 + v
    ELSE IF v < 62 THEN v - 4
    ELSE IF v = 62 THEN 43 ELSE 47

Base64Value(c) ==
    IF c >= 65 /\ c <= 90 THEN c - 65
    ELSE IF c >= 97 /\ c <= 122 THEN c - 71
    ELSE IF c >= 48 /\ c <= 57 THEN c + 4
    ELSE IF c = 43 THEN 62
    ELSE IF c = 47 THEN 63
    ELSE -1

\* forge.util.decode64: characters outside the alphabet are dropped, then
\* four characters give up to three bytes, = standing for no byte
Decode64Group(q) ==
    (IF q[1] = 61 \/ q[2] = 61 THEN << >>
     ELSE << Base64Value(q[1]) * 4 + Base64Value(q[2]) \div 16 >>)
    \o (IF q[2] = 61 \/ q[3] = 61 THEN << >>
        ELSE << (Base64Value(q[2]) % 16) * 16 + Base64Value(q[3]) \div 4 >>)
    \o (IF q[3] = 61 \/ q[4] = 61 THEN << >>
        ELSE << (Base64Value(q[3]) % 4) * 64 + Base64Value(q[4]) >>)

\* the groups one after the other, the text halved at a group boundary
RECURSIVE Decode64(_)
Decode64(q) ==
    IF Len(q) < 4 THEN << >>
    ELSE IF Len(q) < 8 THEN Decode64Group(q)
    ELSE Decode64(SubSeq(q, 1, 4 * (Len(q) \div 8)))
         \o Decode64(SubSeq(q, 4 * (Len(q) \div 8) + 1, Len(q)))

IsBase64(c) == Base64Value(c) >= 0 \/ c = 61

decode64(t) == Decode64(SelectSeq(t, IsBase64))

\* '-----BEGIN CERTIFICATE-----' and '-----END CERTIFICATE-----'
PemBegin == << 45, 45, 45, 45, 45 >> \o BeginCertificate \o << 45, 45, 45, 45, 45 >>
PemEnd ==
    << 45, 45, 45, 45, 45, 69, 78, 68, 32, 67, 69, 82, 84, 73, 70, 73, 67, 65, 84, 69,
       45, 45, 45, 45, 45 >>

\* the first place at or after `from` where pat stands, 0 when there is none
IndexOf(bytes, pat, from) ==
    LET places == {i \in from..(Len(bytes) - Len(pat) + 1) :
                      bytes[i] = pat[1] /\ SubSeq(bytes, i, i + Len(pat) - 1) = pat}
    IN  IF places = {} THEN 0 ELSE CHOOSE i \in places : \A k \in places : i <= k

\* the body of the message between the two lines (forge.pem.decode, for a
\* message without headers): base64 characters, = and white space
PemBody(pemText, first, end) ==
    IF end = 0 \/ end <= first
       \/ \E k \in first..(end - 1) : ~(IsBase64(pemText[k]) \/ IsSpace(pemText[k]))
    THEN [ok |-> FALSE]
    ELSE [ok |-> TRUE, bytes |-> decode64(SubSeq(pemText, first, end - 1))]

PemArmour(pemText, begin) ==
    IF begin = 0 THEN [ok |-> FALSE]
    ELSE PemBody(pemText, begin + Len(PemBegin),
                 IndexOf(pemText, PemEnd, begin + Len(PemBegin)))

PemCertificate(asn1) ==
    IF ~asn1.ok THEN Thrown(asn1.err) ELSE certificateFromAsn1(asn1.node)

PemMessage(body) ==
    IF ~body.ok THEN Thrown("Invalid PEM formatted message")
    ELSE PemCertificate(fromDer(body.bytes))

\* forge.pki.certificateFromPem: the armour is taken off, the body decoded
\* from base64 and from DER, and certificateFromAsn1 applied
certificateFromPem(pemText) == PemMessage(PemArmour(pemText, IndexOf(pemText, PemBegin, 1)))

\* lines 52-60 and 61-89: the PEM branch returns what certificateFromPem
\* parsed; when that throws, and in the DER branch, the bytes of the buffer
\* itself are decoded as DER
PemParsed(pem, c, asn1) ==
    IF pem /\ c.ok THEN [ok |-> TRUE, details |-> extractAadhaarSignDetails(c.cert)]
    ELSE BufferDecoded(pem, asn1)

parseCertificateFromBuffer(certBuffer) ==
    PemParsed(Includes(certBuffer, BeginCertificate), certificateFromPem(certBuffer),
              fromDer(certBuffer))

(***************************************************************************)
(* PDFCertificateExtractor (pdfCertificateExtractor.js).                   *)
(***************************************************************************)
\* The Aadhaar test, written out at each of its three places in the source.
hasAadhaarDataSignature(details) ==
    details.tpin # NA \/ details.gender # NA \/ details.yob # NA \/ details.pincode # NA

hasAadhaarDataDirect(details) ==
    details.tpin # NA \/ details.gender # NA \/ details.yob # NA \/ details.pincode # NA

\* the test without the pincode
hasAadhaarDataNoPincode(details) ==
    details.tpin # NA \/ details.gender # NA \/ details.yob # NA

hasAadhaarDataNested(details) ==
    details.tpin # NA \/ details.gender # NA \/ details.yob # NA \/ details.pincode # NA

\* bytes[i] === 0x30 && (bytes[i + 1] === 0x82 || bytes[i + 1] === 0x83)
IsCertPattern(bytes, i) ==
    ByteAt(bytes, i) = 48 /\ ByteAt(bytes, i + 1) \in {130, 131}

\* asn1.value && Array.isArray(asn1.value) && asn1.value.length === 3
HasThreeElements(node) == ValueIsArray(node) /\ Len(node.kids) = 3

MinCertLen == 500
MaxCertLen == 10000
ScanMargin == 100

\* lines 559-570: the slice is pushed when it decodes to three elements
ScanDecoded(certBytes, asn1, size, offset) ==
    IF asn1.ok /\ HasThreeElements(asn1.node)
    THEN << [buffer |-> certBytes, size |-> size, offset |-> offset] >>
    ELSE << >>

ScanSliced(certBytes, size, offset) ==
    ScanDecoded(certBytes, fromDer(certBytes), size, offset)

\* the length test with the lower bound excluded
ScanLengthAboveMin(bytes, i, headerSize, certLen) ==
    IF /\ certLen > MinCertLen /\ certLen <= MaxCertLen
       /\ i + headerSize + certLen <= Len(bytes)
    THEN ScanSliced(JsSlice(bytes, i, i + headerSize + certLen), headerSize + certLen, i)
    ELSE << >>

\* lines 551-557: the length and bounds tests
ScanLength(bytes, i, headerSize, certLen) ==
    IF /\ certLen >= MinCertLen /\ certLen <= MaxCertLen
       /\ i + headerSize + certLen <= Len(bytes)
    THEN ScanSliced(JsSlice(bytes, i, i + headerSize + certLen), headerSize + certLen, i)
    ELSE << >>

\* the body of scanForCertificates's loop at offset i: the candidate pushed,
\* if any
ScanCandidate(bytes, i) ==
    ScanLength(bytes, i, 2 + (ByteAt(bytes, i + 1) % 128),
               ReadLength(bytes, i + 2, ByteAt(bytes, i + 1) % 128, 0))

\* the least offset in from..below-1 that shows the 30 82/83 pattern, or below
NextPattern(bytes, from, below) ==
    LET hits == {j \in from..(below - 1) : IsCertPattern(bytes, j)}
    IN  IF hits = {} THEN below ELSE CHOOSE j \in hits : \A k \in hits : j <= k

\* for (let i = 0; i < bytes.length - 100; i++): offsets without the pattern
\* push nothing, so the loop is followed from pattern to pattern.
RECURSIVE ScanFrom(_, _, _)
ScanFrom(bytes, from, foundCerts) ==
    LET below == Len(bytes) - ScanMargin
        i     == NextPattern(bytes, from, below)
    IN  IF i >= below THEN foundCerts
        ELSE ScanFrom(bytes, i + 1, foundCerts \o ScanCandidate(bytes, i))

scanForCertificates(bytes) == ScanFrom(bytes, 0, << >>)

\* Strategy 0's test of each found certificate: the index of the first one
\* whose record has Aadhaar data, 0 when none has (a parse error counts as
\* none).
RECURSIVE FirstAadhaarDirect(_, _)
DirectTested(foundCerts, i, r) ==
    IF r.ok /\ hasAadhaarDataDirect(r.details) THEN i
    ELSE FirstAadhaarDirect(foundCerts, i + 1)

FirstAadhaarDirect(foundCerts, i) ==
    IF i > Len(foundCerts) THEN 0
    ELSE DirectTested(foundCerts, i, parseCertificateFromBuffer(foundCerts[i].buffer))

RECURSIVE FirstAadhaarNested(_, _)
NestedTested(foundCerts, i, r) ==
    IF r.ok /\ hasAadhaarDataNested(r.details) THEN i
    ELSE FirstAadhaarNested(foundCerts, i + 1)

FirstAadhaarNested(foundCerts, i) ==
    IF i > Len(foundCerts) THEN 0
    ELSE NestedTested(foundCerts, i, parseCertificateFromBuffer(foundCerts[i].buffer))

\* foundCerts.sort((a, b) => b.size - a.size)[0]: the sort is stable, so the
\* first of the largest
LargestFirst(foundCerts) ==
    LET best == CHOOSE i \in 1..Len(foundCerts) :
                  /\ \A j \in 1..Len(foundCerts) : foundCerts[j].size <= foundCerts[i].size
                  /\ \A j \in 1..(i - 1) : foundCerts[j].size < foundCerts[i].size
    IN  foundCerts[best]

PatternCert(buffer, by) == [kind |-> "cert", cert |-> buffer, by |-> by]

\* the choice with the largest certificate as the fallback
DirectChosenLargest(foundCerts, hit) ==
    IF hit > 0 THEN PatternCert(foundCerts[hit].buffer, "direct")
    ELSE PatternCert(LargestFirst(foundCerts).buffer, "direct-first")

\* lines 241-249: the certificate with Aadhaar data, else foundCerts[0]
DirectChosen(foundCerts, hit) ==
    IF hit > 0 THEN PatternCert(foundCerts[hit].buffer, "direct")
    ELSE PatternCert(foundCerts[1].buffer, "direct-first")

\* lines 213-250
DirectScanChoice(foundCerts) == DirectChosen(foundCerts, FirstAadhaarDirect(foundCerts, 1))

NestedMinLen == 100
NestedMaxLen == 10000
NestedMargin == 100

\* lines 390-401: the slice is pushed when it decodes to three elements
NestedDecoded(rawCertBytes, rawCertAsn1, size, offset) ==
    IF rawCertAsn1.ok /\ HasThreeElements(rawCertAsn1.node)
    THEN << [buffer |-> rawCertBytes, size |-> size, offset |-> offset] >>
    ELSE << >>

NestedSliced(rawCertBytes, size, offset) ==
    NestedDecoded(rawCertBytes, fromDer(rawCertBytes), size, offset)

\* lines 383-388: the length and bounds tests
NestedLength(bytes, rawPos, structStart, certLenBytes, certLen) ==
    IF /\ certLen > NestedMinLen /\ certLen < NestedMaxLen
       /\ rawPos + certLenBytes + certLen <= Len(bytes)
    THEN NestedSliced(JsSlice(bytes, rawPos, rawPos + certLenBytes + certLen),
                      certLen + certLenBytes, rawPos - structStart)
    ELSE << >>

\* lines 369-405: what the raw scan inside a structure pushes at rawPos
NestedCandidate(bytes, rawPos, structStart) ==
    NestedLength(bytes, rawPos, structStart, 2 + (ByteAt(bytes, rawPos + 1) % 128),
                 ReadLength(bytes, rawPos + 2, ByteAt(bytes, rawPos + 1) % 128, 0))

RECURSIVE NestedScanFrom(_, _, _, _, _)
NestedScanFrom(bytes, from, structStart, structEnd, foundCerts) ==
    LET below  == structEnd - NestedMargin
        rawPos == NextPattern(bytes, from, below)
    IN  IF rawPos >= below THEN foundCerts
        ELSE NestedScanFrom(bytes, rawPos + 1, structStart, structEnd,
                            foundCerts \o NestedCandidate(bytes, rawPos, structStart))

\* lines 426-449: the certificate with Aadhaar data, else the largest
NestedChosen(foundCerts, hit) ==
    IF hit > 0 THEN PatternCert(foundCerts[hit].buffer, "nested")
    ELSE PatternCert(LargestFirst(foundCerts).buffer, "nested-largest")

\* lines 409-450
NestedScanChoice(foundCerts) == NestedChosen(foundCerts, FirstAadhaarNested(foundCerts, 1))

\* lines 351-359: the first element that is a three-element SEQUENCE, 0 if none
RECURSIVE NestedElement(_, _)
NestedElement(kids, k) ==
    IF k > Len(kids) THEN 0
    ELSE IF kids[k].type = TypeSequence /\ HasThreeElements(kids[k]) THEN k
    ELSE NestedElement(kids, k + 1)

\* lines 351-361: an element that is a certificate is returned, else the
\* raw scan of the structure comes next
SequenceNested(kids, k, scanPos, structEnd) ==
    IF k > 0 THEN PatternCert(toDer(kids[k]), "a0-element")
    ELSE [kind |-> "scan", structStart |-> scanPos, structEnd |-> structEnd]

\* lines 323-361: the decoded SEQUENCE has three elements, more, or fewer
SequenceDecoded(scanPos, seqBytes, testAsn1, structEnd) ==
    IF ~testAsn1.ok \/ ~ValueIsArray(testAsn1.node)
    THEN [kind |-> "next", scanPos |-> structEnd]
    ELSE IF Len(testAsn1.node.kids) = 3 THEN PatternCert(seqBytes, "a0")
    ELSE IF Len(testAsn1.node.kids) > 3
    THEN SequenceNested(testAsn1.node.kids, NestedElement(testAsn1.node.kids, 1),
                        scanPos, structEnd)
    ELSE [kind |-> "next", scanPos |-> structEnd]

SequenceSliced(scanPos, seqBytes, structEnd) ==
    SequenceDecoded(scanPos, seqBytes, fromDer(seqBytes), structEnd)

\* lines 315-321: the bytes of the SEQUENCE, header and content
SequenceLength(bytes, scanPos, seqLengthBytes, seqLength) ==
    SequenceSliced(scanPos, JsSlice(bytes, scanPos, scanPos + seqLengthBytes + seqLength),
                   scanPos + seqLengthBytes + seqLength)

\* lines 296-359: the iteration of the while loop at a SEQUENCE tag, up to
\* the raw scan.  The result is the certificate returned, "scan" when the raw
\* scan of lines 363-406 comes next, "next" with the new scanPos, or "exit"
\* when scanPos became NaN (the length byte lies beyond the buffer).
SequenceTest(bytes, scanPos) ==
    LET b == ByteAt(bytes, scanPos + 1)
    IN  IF b = Undef THEN [kind |-> "exit"]
        ELSE IF b >= 128
        THEN SequenceLength(bytes, scanPos, 2 + (b % 128),
                            ReadLength(bytes, scanPos + 2, b % 128, 0))
        ELSE SequenceLength(bytes, scanPos, 2, b)

\* lines 409-461: the choice among the raw scan's certificates, or on
SequenceScanned(structEnd, foundCerts) ==
    IF Len(foundCerts) > 0 THEN NestedScanChoice(foundCerts)
    ELSE [kind |-> "next", scanPos |-> structEnd]

SequenceTested(bytes, t) ==
    IF t.kind # "scan" THEN t
    ELSE SequenceScanned(t.structEnd,
             NestedScanFrom(bytes, t.structStart, t.structStart, t.structEnd, << >>))

\* lines 296-461: the whole iteration at a SEQUENCE tag
SequenceIteration(bytes, scanPos) == SequenceTested(bytes, SequenceTest(bytes, scanPos))

\* lines 294-464: one iteration of the while loop
WalkIteration(bytes, scanPos) ==
    IF ByteAt(bytes, scanPos) = 48 THEN SequenceIteration(bytes, scanPos)
    ELSE [kind |-> "next", scanPos |-> scanPos + 1]

\* while (scanPos < sectionEnd && scanPos < bytes.length)
WalkContinues(bytes, scanPos, sectionEnd) ==
    scanPos < sectionEnd /\ scanPos < Len(bytes)

\* The while loop from scanPos on.  Iterations at other bytes only add one
\* to scanPos, so the walk is followed from SEQUENCE tag to SEQUENCE tag;
\* visited holds the tags already handled: coming back to one repeats the
\* same iterations for ever.
RECURSIVE SectionWalk(_, _, _, _)
WalkStepped(bytes, sectionEnd, visited, r) ==
    IF r.kind = "cert" THEN r
    ELSE IF r.kind = "exit" THEN [kind |-> "none"]
    ELSE SectionWalk(bytes, r.scanPos, sectionEnd, visited)

WalkAt(bytes, sectionEnd, visited, at) ==
    IF at \in visited THEN [kind |-> "hang", by |-> "a0"]
    ELSE WalkStepped(bytes, sectionEnd, visited \cup {at}, WalkIteration(bytes, at))

WalkTags(bytes, sectionEnd, visited, tags) ==
    IF tags = {} THEN [kind |-> "none"]
    ELSE WalkAt(bytes, sectionEnd, visited, CHOOSE q \in tags : \A k \in tags : q <= k)

SectionWalk(bytes, scanPos, sectionEnd, visited) ==
    WalkTags(bytes, sectionEnd, visited,
             {q \in (IF scanPos < 0 THEN 0 ELSE scanPos)..
                    ((IF sectionEnd < Len(bytes) THEN sectionEnd ELSE Len(bytes)) - 1) :
                 ByteAt(bytes, q) = 48})

A0Margin == 4

\* lines 259-292: where the content of the A0 element at i starts and ends
SectionBounds(bytes, i) ==
    LET b == ByteAt(bytes, i + 1)
        numLengthBytes == b % 128
    IN  IF b = 128
        THEN [contentStart |-> i + 2, sectionEnd |-> Len(bytes)]
        ELSE IF b >= 128
        THEN [contentStart |-> i + 2 + numLengthBytes,
              sectionEnd |-> i + 2 + numLengthBytes
                             + ReadLength(bytes, i + 2, numLengthBytes, 0)]
        ELSE [contentStart |-> i + 2, sectionEnd |-> i + 2 + b]

RECURSIVE SectionScan(_, _)
SectionWalked(bytes, i, r) ==
    IF r.kind = "none" THEN SectionScan(bytes, i + 1) ELSE r

SectionEntered(bytes, i, sec) ==
    SectionWalked(bytes, i, SectionWalk(bytes, sec.contentStart, sec.sectionEnd, {}))

SectionTags(bytes, tags) ==
    IF tags = {} THEN [kind |-> "none"]
    ELSE SectionEntered(bytes, CHOOSE q \in tags : \A k \in tags : q <= k,
                        SectionBounds(bytes, CHOOSE q \in tags : \A k \in tags : q <= k))

\* lines 254-469: for (let i = 0; i < bytes.length - 4; i++) if A0 ...
SectionScan(bytes, from) ==
    SectionTags(bytes, {q \in from..(Len(bytes) - A0Margin - 1) : ByteAt(bytes, q) = 160})

FinalMinLen == 400
FinalMaxLen == 10000
FinalMargin == 100

\* lines 497-515: the slice is returned when it decodes to three elements
\* or more
FinalDecoded(certBytes, testAsn1) ==
    IF testAsn1.ok /\ ValueIsArray(testAsn1.node) /\ Len(testAsn1.node.kids) >= 3
    THEN << certBytes >>
    ELSE << >>

FinalSliced(certBytes) == FinalDecoded(certBytes, fromDer(certBytes))

\* lines 489-495: the length and bounds tests
FinalLength(bytes, i, lengthOffset, certLength) ==
    IF /\ ~(certLength < FinalMinLen \/ certLength > FinalMaxLen)
       /\ ~(i + lengthOffset + certLength > Len(bytes))
    THEN FinalSliced(JsSlice(bytes, i, i + lengthOffset + certLength))
    ELSE << >>

\* lines 475-519: the certificate returned at offset i, if any
FinalCandidate(bytes, i) ==
    FinalLength(bytes, i, 2 + (ByteAt(bytes, i + 1) % 128),
                ReadLength(bytes, i + 2, ByteAt(bytes, i + 1) % 128, 0))

RECURSIVE FinalScan(_, _)
FinalTested(bytes, i, candidate) ==
    IF candidate # << >> THEN PatternCert(candidate[1], "final")
    ELSE FinalScan(bytes, i + 1)

FinalAt(bytes, i, below) ==
    IF i >= below THEN [kind |-> "none"]
    ELSE FinalTested(bytes, i, FinalCandidate(bytes, i))

FinalScan(bytes, from) ==
    FinalAt(bytes, NextPattern(bytes, from, Len(bytes) - FinalMargin),
            Len(bytes) - FinalMargin)

\* lines 473-523: the last scan, then the throw
PatternFinal(final) ==
    IF final.kind # "none" THEN final ELSE [kind |-> "error", by |-> "pattern"]

\* lines 254-523
PatternSections(bytes, section) ==
    IF section.kind # "none" THEN section ELSE PatternFinal(FinalScan(bytes, 0))

PatternScanned(bytes, foundCerts) ==
    IF Len(foundCerts) > 0 THEN DirectScanChoice(foundCerts)
    ELSE PatternSections(bytes, SectionScan(bytes, 0))

\* [kind |-> "cert", cert, by], [kind |-> "error"] or [kind |-> "hang"]
extractCertificateByPattern(bytes) == PatternScanned(bytes, scanForCertificates(bytes))

\* subField.tagClass === 2 && subField.type === 0
CertificatesTagClass == 2
CertificatesType == 0

\* lines 169-182: the first [0] field of a content SEQUENCE that has members
RECURSIVE CertificatesField(_, _)
CertificatesField(subFields, j) ==
    IF j > Len(subFields) THEN 0
    ELSE IF /\ subFields[j].tagClass = CertificatesTagClass
            /\ subFields[j].type = CertificatesType
            /\ ValueIsArray(subFields[j]) /\ Len(subFields[j].kids) > 0
    THEN j
    ELSE CertificatesField(subFields, j + 1)

RECURSIVE NavigateFields(_, _)
NavigateField(fields, i, j) ==
    IF j > 0 THEN << toDer(fields[i].kids[j].kids[1]) >>
    ELSE NavigateFields(fields, i + 1)

\* lines 163-185: the certificate the navigation returns, << >> if none
NavigateFields(fields, i) ==
    IF i > Len(fields) THEN << >>
    ELSE NavigateField(fields, i,
             IF /\ fields[i].tagClass = 0 /\ fields[i].type = TypeSequence
                /\ ValueIsArray(fields[i])
             THEN CertificatesField(fields[i].kids, 1) ELSE 0)

\* lines 186-188
Asn1Navigated(found, ran) ==
    IF found # << >>
    THEN [kind |-> "cert", cert |-> found[1], by |-> "asn1", ran |-> ran]
    ELSE [kind |-> "error", by |-> "asn1", ran |-> ran]

\* lines 135-186: the catch of fromDer, else the navigation
Asn1Decoded(asn1Binary, ran, asn1) ==
    IF ~asn1.ok
    THEN IF asn1.err = "Unparsed DER bytes"
         THEN [ran |-> Append(ran, "pattern")] @@ extractCertificateByPattern(asn1Binary)
         ELSE [kind |-> "error", by |-> "asn1", ran |-> ran]
    ELSE Asn1Navigated(IF ValueIsArray(asn1.node) THEN NavigateFields(asn1.node.kids, 1)
                       ELSE << >>, ran)

\* extractCertificateFromASN1; ran lists the strategies entered so far
extractCertificateFromASN1(asn1Binary, ran) ==
    Asn1Decoded(asn1Binary, ran, fromDer(asn1Binary))

(***************************************************************************)
(* forge.pkcs7.messageFromAsn1 for a SignedData envelope: ContentInfo and  *)
(* SignedData are validated and every member of the certificate set is     *)
(* converted with certificateFromAsn1.                                     *)
(***************************************************************************)
IsContext(node, type) == node.tagClass = 128 /\ node.type = type /\ node.constructed

IsContentInfo(node) ==
    /\ IsUniversal(node, TypeSequence, TRUE)
    /\ Len(node.kids) >= 1
    /\ IsUniversal(node.kids[1], TypeOid, FALSE)
    /\ Len(node.kids) >= 2 => IsContext(node.kids[2], 0)

IsSignedData(node) ==
    /\ IsUniversal(node, TypeSequence, TRUE)
    /\ Len(node.kids) >= 3
    /\ IsUniversal(node.kids[1], TypeInteger, FALSE)
    /\ IsUniversal(node.kids[2], TypeSet, TRUE)
    /\ IsContentInfo(node.kids[3])

RECURSIVE CertificatesFromAsn1(_, _)
CertificateConverted(members, acc, c) ==
    IF c.ok THEN CertificatesFromAsn1(Tail(members), Append(acc, c.cert))
    ELSE Thrown(c.err)

CertificatesFromAsn1(members, acc) ==
    IF members = << >> THEN [ok |-> TRUE, certificates |-> acc]
    ELSE CertificateConverted(members, acc, certificateFromAsn1(Head(members)))

messageFromAsn1(node) ==
    IF ~IsContentInfo(node) THEN Thrown("not a ContentInfo")
    ELSE IF node.kids[1].content # OidSignedData THEN Thrown("content type not supported")
    ELSE IF Len(node.kids) < 2 \/ node.kids[2].kids = << >>
            \/ ~IsSignedData(node.kids[2].kids[1])
    THEN Thrown("not a SignedData")
    ELSE LET signedData == node.kids[2].kids[1]
         IN  IF Len(signedData.kids) >= 4 /\ IsContext(signedData.kids[4], 0)
             THEN CertificatesFromAsn1(signedData.kids[4].kids, << >>)
             ELSE [ok |-> TRUE, certificates |-> << >>]

\* forge.pki.certificateToAsn1 followed by asn1.toDer
certificateToDer(cert) == toDer(cert.asn1)

\* lines 98-118: the first certificate of the message, or the throw and
\* its catch
Pkcs7Message(pkcs7Binary, p7) ==
    IF ~p7.ok THEN extractCertificateFromASN1(pkcs7Binary, << "pkcs7", "asn1" >>)
    ELSE IF Len(p7.certificates) > 0
    THEN [kind |-> "cert", cert |-> certificateToDer(p7.certificates[1]),
          by |-> "pkcs7", ran |-> << "pkcs7" >>]
    ELSE [kind |-> "error", by |-> "pkcs7", ran |-> << "pkcs7" >>]

\* lines 93-95: fromDer and messageFromAsn1 inside the try
Pkcs7Parsed(p7Asn1) ==
    IF p7Asn1.ok THEN messageFromAsn1(p7Asn1.node) ELSE Thrown(p7Asn1.err)

Pkcs7Decoded(pkcs7Binary, p7Asn1) == Pkcs7Message(pkcs7Binary, Pkcs7Parsed(p7Asn1))

\* extractCertificateFromPKCS7: [kind |-> "cert", cert, by, ran],
\* [kind |-> "error", by, ran] or [kind |-> "hang", ran]
extractCertificateFromPKCS7(pkcs7Binary) == Pkcs7Decoded(pkcs7Binary, fromDer(pkcs7Binary))

\* hexToBytes: parseInt(hex.substr(i, 2), 16) for each pair of characters;
\* the last pair of an odd-length text is one character.  The texts it is
\* given match [0-9A-Fa-f]+ (line 19).
hexToBytes(hex) ==
    << >> \o
    [k \in 1..((Len(hex) + 1) \div 2) |->
        HexValue(SubSeq(hex, 2 * k - 1, IF 2 * k > Len(hex) THEN Len(hex) ELSE 2 * k), 0)]

(***************************************************************************)
(* Inputs: certificates and signature blobs, built as ASN.1 trees and      *)
(* encoded with toDer, or written byte by byte where the encoding is not   *)
(* canonical DER.                                                          *)
(***************************************************************************)
Prim(type, content) ==
    [tagClass |-> 0, type |-> type, constructed |-> FALSE,
     kids |-> << >>, content |-> content]
Cons(type, kids) ==
    [tagClass |-> 0, type |-> type, constructed |-> TRUE,
     kids |-> kids, content |-> << >>]
Ctx(type, kids) ==
    [tagClass |-> 128, type |-> type, constructed |-> TRUE,
     kids |-> kids, content |-> << >>]

Zeros(n) == [i \in 1..n |-> 0]

\* one RDN: SET { SEQUENCE { OID, PrintableString } }
Rdn(oid, text) == Cons(TypeSet, << Cons(TypeSequence, << Prim(TypeOid, oid), Prim(19, text) >>) >>)
AlgId(oid) == Cons(TypeSequence, << Prim(TypeOid, oid), Prim(5, << >>) >>)
UtcTime(text) == Prim(TypeUtcTime, text)

NotBeforeText == << 50, 48, 48, 49, 48, 49, 48, 48, 48, 48, 48, 48, 90 >>  \* 200101000000Z
NotAfterText  == << 51, 48, 48, 49, 48, 49, 48, 48, 48, 48, 48, 48, 90 >>  \* 300101000000Z

\* An X.509 certificate: serial, key algorithm, subject RDNs, tbsPad bytes of
\* extension data and sigPad bytes of signature.
Certificate(serial, keyOid, subject, tbsPad, sigPad) ==
    Cons(TypeSequence, <<
        Cons(TypeSequence, <<
            Prim(TypeInteger, << serial >>),
            AlgId(OidRsa),
            Cons(TypeSequence, << Rdn(OidCN, << 67, 65 >>), Rdn(OidO, << 79, 114, 103 >>) >>),
            Cons(TypeSequence, << UtcTime(NotBeforeText), UtcTime(NotAfterText) >>),
            Cons(TypeSequence, subject),
            Cons(TypeSequence, << AlgId(keyOid), Prim(TypeBitString, << 0, 1 >>) >>),
            Ctx(3, << Prim(4, Zeros(tbsPad)) >>) >>),
        AlgId(OidRsa),
        Prim(TypeBitString, Zeros(sigPad)) >>)

TextAB12   == << 65, 66, 49, 50 >>                  \* "AB12"
TextKA     == << 75, 65 >>                          \* "KA"
TextRavi   == << 82, 97, 118, 105 >>                \* "Ravi"
Text1990F  == << 49, 57, 57, 48, 70, 53 >>          \* "1990F5"
Text1985   == << 49, 57, 56, 53 >>                  \* "1985"
TextXXXXm  == << 88, 88, 88, 88, 109 >>             \* "XXXXm"
Text560001 == << 53, 54, 48, 48, 48, 49 >>          \* "560001"

\* subjects: an organisation's (no identity field), and one per identity field
SubjectCorporate == << Rdn(OidCN, TextRavi), Rdn(OidST, TextKA) >>
SubjectTpin      == << Rdn(OidCN, TextRavi), Rdn(OidT, TextAB12) >>
SubjectGender    == << Rdn(OidDnQualifier, TextXXXXm) >>
SubjectYob       == << Rdn(OidDnQualifier, Text1985) >>
SubjectPincode   == << Rdn(OidPostalCode, Text560001) >>
SubjectFull      == << Rdn(OidCN, TextRavi), Rdn(OidT, TextAB12), Rdn(OidST, TextKA),
                       Rdn(OidDnQualifier, Text1990F), Rdn(OidPostalCode, Text560001) >>

\* certificates of 500 bytes and more (found by the direct scan) ...
CertSignerRsa == Certificate(1, OidRsa, SubjectFull, 230, 130)
CertCaRsa     == Certificate(2, OidRsa, SubjectCorporate, 230, 130)
CertTpinEc    == Certificate(3, OidEc, SubjectTpin, 230, 130)
CertCaEc      == Certificate(4, OidEc, SubjectCorporate, 230, 120)
CertCaEcLarge == Certificate(5, OidEc, SubjectCorporate, 520, 130)
CertGenderEc  == Certificate(6, OidEc, SubjectGender, 230, 130)
CertYobRsa    == Certificate(7, OidRsa, SubjectYob, 230, 130)
CertPincodeEc == Certificate(8, OidEc, SubjectPincode, 230, 130)
\* ... of 260 to 499 (left to the A0 walk and the final scan) ...
SmallCaEc      == Certificate(9, OidEc, SubjectCorporate, 70, 60)
SmallCaEcLarge == Certificate(10, OidEc, SubjectCorporate, 120, 80)
SmallTpinEc    == Certificate(11, OidEc, SubjectTpin, 70, 60)
SmallGenderEc  == Certificate(12, OidEc, SubjectGender, 70, 60)
SmallYobEc     == Certificate(13, OidEc, SubjectYob, 70, 60)
SmallPincodeEc == Certificate(14, OidEc, SubjectPincode, 70, 60)
\* ... and one short enough for a one-byte length (30 81)
TinyCaEc       == Certificate(15, OidEc, SubjectCorporate, 40, 30)
\* content lengths 499 and 500
CertCaEcBelow  == Certificate(16, OidEc, SubjectCorporate, 230, 114)
CertCaEcMin    == Certificate(17, OidEc, SubjectCorporate, 230, 115)
\* content lengths 10000 and 10001
CertCaEcMax    == Certificate(18, OidEc, SubjectCorporate, 230, 9613)
CertCaEcAbove  == Certificate(19, OidEc, SubjectCorporate, 230, 9614)

\* a certificate as the first element of a three-element SEQUENCE
Wrapped(cert) ==
    Cons(TypeSequence, << cert, AlgId(OidEc), Prim(TypeBitString, Zeros(8)) >>)

\* three elements whose first holds a name with a SEQUENCE where the
\* attribute type should be: derToOid throws on it
Unparsable ==
    Cons(TypeSequence,
         << Cons(TypeSequence,
                 << Cons(TypeSequence,
                         << Cons(TypeSet,
                                 << Cons(TypeSequence,
                                         << Cons(TypeSequence, << >>),
                                            Prim(19, TextRavi) >>) >>) >>),
                    Prim(4, Zeros(480)) >>),
            AlgId(OidEc), Prim(TypeBitString, Zeros(8)) >>)

\* PKCS#7 SignedData: ContentInfo { signedData, [0] { SignedData } }
SignedDataBody(certs, withSet) ==
    Cons(TypeSequence,
         << Prim(TypeInteger, << 1 >>),
            Cons(TypeSet, << AlgId(OidRsa) >>),
            Cons(TypeSequence, << Prim(TypeOid, OidData) >>) >>
         \o (IF withSet THEN << Ctx(0, certs) >> ELSE << >>)
         \o << Cons(TypeSet, << >>) >>)

SignedData(certs) ==
    toDer(Cons(TypeSequence,
               << Prim(TypeOid, OidSignedData), Ctx(0, << SignedDataBody(certs, TRUE) >>) >>))

\* the zero padding a PDF writer leaves after the envelope in /Contents
Padded(bytes) == bytes \o Zeros(16)

\* the envelope without the optional certificates field
SignedDataNoSet ==
    toDer(Cons(TypeSequence,
               << Prim(TypeOid, OidSignedData), Ctx(0, << SignedDataBody(<< >>, FALSE) >>) >>))

\* BER framing with indefinite lengths (30 80 ... A0 80 ... 00 00 00 00)
SignedDataIndefinite(certs) ==
    << 48, 128 >> \o toDer(Prim(TypeOid, OidSignedData))
    \o << 160, 128 >> \o toDer(SignedDataBody(certs, TRUE)) \o << 0, 0, 0, 0 >>

\* [0] { SEQUENCE { INTEGER, INTEGER, INTEGER, certificate } }
ElementHolder(cert) ==
    toDer(Cons(TypeSequence,
               << Prim(TypeOid, OidData),
                  Ctx(0, << Cons(TypeSequence,
                                 << Prim(TypeInteger, << 1 >>), Prim(TypeInteger, << 2 >>),
                                    Prim(TypeInteger, << 3 >>), cert >>) >>) >>))

\* tag byte b1, the shortest definite length, the value
Encoded(b1, val) == << b1 >> \o DerLength(Len(val)) \o val

\* the certificate with its length written on three bytes (30 83 00 hi lo)
\* where two would do: BER, not DER
LongFormCertificate(cert) ==
    << 48, 131, 0, Len(toDerAll(cert.kids)) \div 256, Len(toDerAll(cert.kids)) % 256 >>
    \o toDerAll(cert.kids)

\* ElementHolder around a certificate given as bytes
ElementHolderBytes(certBytes) ==
    Encoded(48, toDer(Prim(TypeOid, OidData))
                \o Encoded(160, Encoded(48, toDer(Prim(TypeInteger, << 1 >>))
                                            \o toDer(Prim(TypeInteger, << 2 >>))
                                            \o toDer(Prim(TypeInteger, << 3 >>))
                                            \o certBytes)))

\* a 30 82 SEQUENCE of four OCTET STRINGs, 450 bytes of content, no A0 tag
FourElements ==
    << 4, 0 >> \o
    toDer(Cons(TypeSequence,
               << Prim(4, Zeros(110)), Prim(4, Zeros(110)),
                  Prim(4, Zeros(110)), Prim(4, Zeros(112)) >>))

\* an element, then A0 80 and a SEQUENCE whose four length bytes FF FF FF F0
\* decode to -16
NegativeLength ==
    << 4, 0, 160, 128 >> \o Zeros(12) \o << 48, 132, 255, 255, 255, 240 >> \o Zeros(8)

\* SEQUENCE headers in an A0 80 section: length zero, indefinite, four
\* length bytes, five length bytes, and a length beyond the buffer
Lengths ==
    << 4, 0, 160, 128, 48, 0, 48, 128, 0, 0, 48, 132, 0, 0, 0, 2, 5, 0,
       48, 133, 1, 0, 0, 0, 0, 48, 130, 127, 255 >> \o Zeros(8)

\* a SEQUENCE tag as the last byte of an A0 80 section
TagAtEnd == << 4, 0, 160, 128, 0, 0, 0, 0, 48 >>

\* a 30 82 pattern whose length, 5, no scan accepts
ShortPattern == << 4, 0, 48, 130, 0, 5 >> \o Zeros(110)

\* The signature blobs documents are made of.
Blob ==
    [rsaSigner      |-> SignedData(<< CertSignerRsa >>),
     caThenSigner   |-> SignedData(<< CertCaRsa, CertSignerRsa >>),
     rsaCa          |-> SignedData(<< CertCaRsa >>),
     rsaYob         |-> SignedData(<< CertYobRsa >>),
     noCertSet      |-> SignedDataNoSet,
     emptyCertSet   |-> SignedData(<< >>),
     ecExact        |-> SignedData(<< CertTpinEc >>),
     truncated      |-> << 48, 130, 1, 0, 4, 0 >>,
     ecTpin         |-> Padded(SignedData(<< CertTpinEc >>)),
     ecCaThenGender |-> Padded(SignedData(<< CertCaEc, CertGenderEc >>)),
     ecPincode      |-> Padded(SignedData(<< CertPincodeEc >>)),
     rsaYobPadded   |-> Padded(SignedData(<< CertYobRsa >>)),
     ecTwoCas       |-> Padded(SignedData(<< CertCaEc, CertCaEcLarge >>)),
     smallTwoCas    |-> Padded(SignedData(<< SmallCaEc, SmallCaEcLarge >>)),
     smallTpin      |-> Padded(SignedData(<< SmallCaEc, SmallTpinEc >>)),
     smallGender    |-> Padded(SignedData(<< SmallGenderEc >>)),
     smallYob       |-> Padded(SignedData(<< SmallYobEc >>)),
     smallPincode   |-> Padded(SignedData(<< SmallCaEcLarge, SmallPincodeEc >>)),
     tinyCert       |-> Padded(SignedData(<< TinyCaEc >>)),
     berSmall       |-> Padded(SignedDataIndefinite(<< SmallCaEc, SmallTpinEc >>)),
     element        |-> Padded(ElementHolder(SmallCaEc)),
     elementLong    |-> Padded(ElementHolderBytes(LongFormCertificate(SmallTpinEc))),
     fourElements   |-> Padded(FourElements),
     negativeLength |-> NegativeLength,
     lengths        |-> Lengths,
     tagAtEnd       |-> TagAtEnd,
     shortPattern   |-> ShortPattern,
     boundary       |-> Padded(SignedData(<< CertCaEcBelow, CertCaEcMin >>)),
     upper          |-> Padded(SignedData(<< CertCaEcAbove, CertCaEcMax >>)),
     wrapped        |-> Padded(toDer(Wrapped(CertTpinEc))),
     unparsable     |-> Padded(toDer(Unparsable))]

BlobNames == DOMAIN Blob

\* the text between < and > of a /Contents entry holding these bytes
HexText(bytes) ==
    << >> \o
    [k \in 1..(2 * Len(bytes)) |->
        LET d == IF k % 2 = 1 THEN bytes[(k + 1) \div 2] \div 16 ELSE bytes[k \div 2] % 16
        IN  IF d < 10 THEN 48 + d ELSE 55 + d]

(***************************************************************************)
(* extractCertificateFromPDF, one step per iteration of its loop over the  *)
(* signatures.  A document is the list of its /Contents matches, each      *)
(* named by the blob its hex text holds.                                   *)
(***************************************************************************)
MaxSigs == 3

\* matches[sigIndex][1]
SignatureHex == << >> @@ [n \in BlobNames |-> HexText(Blob[n])]

\* this.hexToBytes(signatureHex)
SignatureBinary == << >> @@ [n \in BlobNames |-> hexToBytes(SignatureHex[n])]

\* this.extractCertificateFromPKCS7(signatureBinary), per blob
Extraction == << >> @@ [n \in BlobNames |-> extractCertificateFromPKCS7(SignatureBinary[n])]

\* CertificateParser.parseCertificateFromBuffer(certificate) for what
\* extractCertificateFromPKCS7 returned
ParsedExtraction(extracted) ==
    IF extracted.kind = "cert" THEN parseCertificateFromBuffer(extracted.cert)
    ELSE Thrown("no certificate")

\* the same, per blob
Details == << >> @@ [n \in BlobNames |-> ParsedExtraction(Extraction[n])]

VARIABLES
    matches,      \* the /Contents matches of the document, as blob names
    pc,           \* "start", "loop", "returned", "thrown" or "hung"
    sigIndex,     \* the loop variable (0-based)
    result,       \* what the call returned or threw
    log,          \* the extractCertificateFromPKCS7 calls made so far
    sig,          \* the blob one extractCertificateFromPKCS7 call is given
    signatureBinary,  \* its bytes
    phase,        \* where that call stands
    locals,       \* its local variables: ran (the strategies entered), i (the
                  \* for loops of lines 540, 254, 473), scanPos, sectionEnd (the
                  \* while loop of lines 294-465), rawPos, structEnd (the raw
                  \* scan of lines 368-406), foundCerts (of scanForCertificates,
                  \* then of the raw scan)
    certificate,  \* what the call returned or threw
    verdict       \* the caller's test of the certificate (lines 46-69)

VARIABLES
    entryPoint,   \* which caller feeds the document in: "batch" (processSinglePDF),
                  \* "upload" (/api/parse-certificate), "fixsheet" (extractAadhaarData)
    pdfBuffer,    \* the file the caller read or received
    callStage,    \* where the caller stands
    callResult,   \* what the caller returned, sent or threw
    input,        \* the argument one decoder or length reader is applied to
    applied,      \* which one was applied
    output        \* what it gave

docVars == << matches, pc, sigIndex, result, log >>
sigVars == << sig, signatureBinary, phase, locals, certificate, verdict >>
callVars == << entryPoint, pdfBuffer, callStage, callResult >>
decVars == << input, applied, output >>
otherVars == << callVars, decVars >>
vars == << docVars, sigVars, callVars, decVars >>

IdleCaller ==
    /\ entryPoint = "none" /\ pdfBuffer = "none"
    /\ callStage = "idle" /\ callResult = [kind |-> "none"]

IdleDecoder == input = << >> /\ applied = "none" /\ output = << >>

NoResult == [kind |-> "none"]

\* matches[sigIndex]
SignatureAt(ms, index) == ms[index + 1]

\* sigIndex++
NextSigIndex(index) == index + 1

\* the blobs documents are made of
DocumentBlobs ==
    {"rsaSigner", "caThenSigner", "rsaCa", "emptyCertSet", "ecExact", "truncated",
     "ecTpin", "ecTwoCas", "smallTpin", "fourElements", "unparsable", "negativeLength"}

Documents == UNION {[1..n -> DocumentBlobs] : n \in 0..MaxSigs}

\* no extractCertificateFromPKCS7 call is followed step by step
NoLocals ==
    [ran |-> << >>, i |-> 0, scanPos |-> 0, sectionEnd |-> 0,
     rawPos |-> 0, structEnd |-> 0, foundCerts |-> << >>]

IdleSignature ==
    /\ sig = "none" /\ signatureBinary = << >>
    /\ phase = "idle" /\ locals = NoLocals
    /\ certificate = NoResult /\ verdict = "none"

InitDocument ==
    /\ matches \in Documents
    /\ pc = "start"
    /\ sigIndex = 0
    /\ result = NoResult
    /\ log = << >>
    /\ IdleSignature
    /\ IdleCaller
    /\ IdleDecoder

NoSignatureReturnsEmpty ==
    /\ pc = "start"
    /\ Len(matches) = 0
    /\ pc' = "returned"
    /\ result' = [kind |-> "cert", cert |-> << >>]
    /\ UNCHANGED << matches, sigIndex, log, sigVars, otherVars >>

\* lines 22-24
NoSignature ==
    /\ pc = "start"
    /\ Len(matches) = 0
    /\ pc' = "thrown"
    /\ result' = [kind |-> "error", message |-> "No signature found in PDF"]
    /\ UNCHANGED << matches, sigIndex, log, sigVars, otherVars >>

\* lines 26-31
EnterLoop ==
    /\ pc = "start"
    /\ Len(matches) > 0
    /\ pc' = "loop"
    /\ UNCHANGED << matches, sigIndex, result, log, sigVars, otherVars >>

Decoding == pc = "loop" /\ sigIndex < Len(matches)

Logged(outcome) ==
    Append(log, [sigIndex |-> sigIndex, outcome |-> outcome,
                 by |-> Extraction[SignatureAt(matches, sigIndex)].by])

\* lines 41-63: the certificate has Aadhaar data and is returned
SignatureFound ==
    /\ Decoding
    /\ LET n == SignatureAt(matches, sigIndex)
       IN  /\ Extraction[n].kind = "cert"
           /\ Details[n].ok
           /\ hasAadhaarDataSignature(Details[n].details)
           /\ result' = [kind |-> "cert", cert |-> Extraction[n].cert]
    /\ pc' = "returned"
    /\ log' = Logged("found")
    /\ UNCHANGED << matches, sigIndex, sigVars, otherVars >>

\* lines 41-66: no Aadhaar data, on to the next signature
SignatureNoAadhaar ==
    /\ Decoding
    /\ LET n == SignatureAt(matches, sigIndex)
       IN  /\ Extraction[n].kind = "cert"
           /\ Details[n].ok
           /\ ~hasAadhaarDataSignature(Details[n].details)
    /\ sigIndex' = NextSigIndex(sigIndex)
    /\ log' = Logged("no Aadhaar data")
    /\ UNCHANGED << matches, pc, result, sigVars, otherVars >>

\* lines 67-69: the certificate does not parse
SignatureParseError ==
    /\ Decoding
    /\ LET n == SignatureAt(matches, sigIndex)
       IN  Extraction[n].kind = "cert" /\ ~Details[n].ok
    /\ sigIndex' = NextSigIndex(sigIndex)
    /\ log' = Logged("parse error")
    /\ UNCHANGED << matches, pc, result, sigVars, otherVars >>

\* lines 70-72: extractCertificateFromPKCS7 threw
SignatureExtractionError ==
    /\ Decoding
    /\ Extraction[SignatureAt(matches, sigIndex)].kind = "error"
    /\ sigIndex' = NextSigIndex(sigIndex)
    /\ log' = Logged("extraction error")
    /\ UNCHANGED << matches, pc, result, sigVars, otherVars >>

\* line 41 when extractCertificateFromPKCS7 never returns
SignatureHangs ==
    /\ Decoding
    /\ Extraction[SignatureAt(matches, sigIndex)].kind = "hang"
    /\ pc' = "hung"
    /\ log' = Logged("hang")
    /\ UNCHANGED << matches, sigIndex, result, sigVars, otherVars >>

\* lines 75-78: the first signature is extracted again and returned
FallbackReturns ==
    /\ pc = "loop" /\ sigIndex >= Len(matches)
    /\ Extraction[SignatureAt(matches, 0)].kind = "cert"
    /\ pc' = "returned"
    /\ result' = [kind |-> "cert", cert |-> Extraction[SignatureAt(matches, 0)].cert]
    /\ log' = Append(log, [sigIndex |-> 0, outcome |-> "fallback",
                           by |-> Extraction[SignatureAt(matches, 0)].by])
    /\ UNCHANGED << matches, sigIndex, sigVars, otherVars >>

\* lines 75-81: the second extraction of the first signature throws
FallbackThrows ==
    /\ pc = "loop" /\ sigIndex >= Len(matches)
    /\ Extraction[SignatureAt(matches, 0)].kind = "error"
    /\ pc' = "thrown"
    /\ result' = [kind |-> "error", message |-> "Failed to extract certificate from PDF"]
    /\ log' = Append(log, [sigIndex |-> 0, outcome |-> "fallback error",
                           by |-> Extraction[SignatureAt(matches, 0)].by])
    /\ UNCHANGED << matches, sigIndex, sigVars, otherVars >>

NextDocument ==
    \/ NoSignature
    \/ EnterLoop
    \/ SignatureFound
    \/ SignatureNoAadhaar
    \/ SignatureParseError
    \/ SignatureExtractionError
    \/ SignatureHangs
    \/ FallbackReturns
    \/ FallbackThrows

Init == InitDocument
Next == NextDocument
Spec == Init /\ [][Next]_vars

(***************************************************************************)
(* Properties of extractCertificateFromPDF.                                *)
(***************************************************************************)
\* a record is qualifying: at least one of tpin, gender, yob and pincode is
\* not 'NA'
Qualifying(details) ==
    \E f \in {"tpin", "gender", "yob", "pincode"} : details[f] # NA

\* the signature candidate at 0-based index j yields a certificate whose
\* record is qualifying
QualifyingAt(ms, j) ==
    /\ Extraction[ms[j + 1]].kind = "cert"
    /\ Details[ms[j + 1]].ok
    /\ Qualifying(Details[ms[j + 1]].details)

QualifyingIndexes(ms) == {j \in 0..(Len(ms) - 1) : QualifyingAt(ms, j)}

LowestQualifying(ms) ==
    CHOOSE k \in QualifyingIndexes(ms) : \A j \in QualifyingIndexes(ms) : k <= j

\* the call is over: it returned, threw, or stands in a loop it never leaves
Over == pc \in {"returned", "thrown", "hung"}

\* C1: on a document of which candidate k is the lowest-indexed qualifying
\* one, extractCertificateFromPDF returns candidate k's certificate, and the
\* candidates it decoded are exactly 0..k in that order: none after k, and
\* none before k was returned.
C1_FirstQualifyingReturned ==
    (Over /\ QualifyingIndexes(matches) # {}) =>
        /\ pc = "returned"
        /\ result = [kind |-> "cert",
                     cert |-> Extraction[matches[LowestQualifying(matches) + 1]].cert]
        /\ Len(log) = LowestQualifying(matches) + 1
        /\ \A j \in 1..Len(log) : log[j].sigIndex = j - 1

\* the signature candidate at 0-based index j yields a certificate that
\* parses into a record
DecodableAt(ms, j) ==
    Extraction[ms[j + 1]].kind = "cert" /\ Details[ms[j + 1]].ok

DecodableIndexes(ms) == {j \in 0..(Len(ms) - 1) : DecodableAt(ms, j)}

LowestDecodable(ms) ==
    CHOOSE k \in DecodableIndexes(ms) : \A j \in DecodableIndexes(ms) : k <= j

\* C3: when no candidate yields a qualifying record and at least one yields
\* a certificate that parses into a record, a call of
\* extractCertificateFromPDF that ends has succeeded and returned the
\* earliest such certificate, whatever happened to the candidates before it.
C3_FallbackReturnsEarliestDecodable ==
    (pc \in {"returned", "thrown"} /\ QualifyingIndexes(matches) = {} /\ DecodableIndexes(matches) # {}) =>
        /\ pc = "returned"
        /\ result = [kind |-> "cert",
                     cert |-> Extraction[matches[LowestDecodable(matches) + 1]].cert]

\* C12: on a document without any /Contents <hex> match
\* extractCertificateFromPDF makes no extractCertificateFromPKCS7 call and
\* parses no certificate, never returns a certificate, and ends by throwing
\* the no-signature error.
C12_NoSignatureFound ==
    Len(matches) = 0 =>
        /\ log = << >>
        /\ result.kind # "cert"
        /\ pc \in {"start", "thrown"}
        /\ pc = "thrown" => result = [kind |-> "error", message |-> "No signature found in PDF"]

C12_Witness == Len(matches) = 0 /\ pc = "thrown" /\ result.kind = "error"

(***************************************************************************)
(* One extractCertificateFromPKCS7 call and the caller's test of what it   *)
(* returns, one step per strategy and per iteration of the scan loops.     *)
(***************************************************************************)
IdleDocument ==
    /\ matches = << >> /\ pc = "idle" /\ sigIndex = 0
    /\ result = NoResult /\ log = << >>

InitSignature ==
    /\ sig \in BlobNames
    /\ signatureBinary = SignatureBinary[sig]
    /\ phase = "pkcs7"
    /\ locals = NoLocals
    /\ certificate = NoResult
    /\ verdict = "none"
    /\ IdleDocument
    /\ IdleCaller
    /\ IdleDecoder

\* return of a certificate from the call; r is [kind |-> "cert", cert, by]
Returns(r) ==
    /\ phase' = "returned"
    /\ certificate' = r

\* throw out of the call
Throws(by) ==
    /\ phase' = "thrown"
    /\ certificate' = [kind |-> "error", by |-> by]

\* lines 93-108: the structured decode gives a certificate
StructuredReturns ==
    /\ phase = "pkcs7"
    /\ LET p7 == Pkcs7Parsed(fromDer(signatureBinary))
       IN  /\ p7.ok
           /\ Len(p7.certificates) > 0
           /\ Returns(PatternCert(certificateToDer(p7.certificates[1]), "pkcs7"))
    /\ locals' = [locals EXCEPT !.ran = << "pkcs7" >>]
    /\ UNCHANGED << sig, signatureBinary, verdict, docVars, otherVars >>

\* lines 98, 115: it succeeds without certificates
StructuredEmpty ==
    /\ phase = "pkcs7"
    /\ LET p7 == Pkcs7Parsed(fromDer(signatureBinary))
       IN  /\ p7.ok
           /\ Len(p7.certificates) = 0
    /\ Throws("pkcs7")
    /\ locals' = [locals EXCEPT !.ran = << "pkcs7" >>]
    /\ UNCHANGED << sig, signatureBinary, verdict, docVars, otherVars >>

\* the catch calling the pattern scan at once, without the navigation
StructuredThrowsToPattern ==
    /\ phase = "pkcs7"
    /\ ~Pkcs7Parsed(fromDer(signatureBinary)).ok
    /\ phase' = "direct"
    /\ locals' = [locals EXCEPT !.ran = << "pkcs7", "pattern" >>,
                                !.i = 0, !.foundCerts = << >>]
    /\ UNCHANGED << sig, signatureBinary, certificate, verdict, docVars, otherVars >>

\* lines 109-112: it throws, extractCertificateFromASN1 is called
StructuredThrows ==
    /\ phase = "pkcs7"
    /\ ~Pkcs7Parsed(fromDer(signatureBinary)).ok
    /\ phase' = "asn1"
    /\ locals' = [locals EXCEPT !.ran = << "pkcs7" >>]
    /\ UNCHANGED << sig, signatureBinary, certificate, verdict, docVars, otherVars >>

\* lines 131-144: fromDer reports unparsed bytes, the pattern scan is called
Asn1Unparsed ==
    /\ phase = "asn1"
    /\ ~fromDer(signatureBinary).ok
    /\ fromDer(signatureBinary).err = "Unparsed DER bytes"
    /\ phase' = "direct"
    /\ locals' = [locals EXCEPT !.ran = @ \o << "asn1", "pattern" >>,
                                !.i = 0, !.foundCerts = << >>]
    /\ UNCHANGED << sig, signatureBinary, certificate, verdict, docVars, otherVars >>

\* lines 133-145, 190-192: any other fromDer error is thrown on
Asn1Throws ==
    /\ phase = "asn1"
    /\ ~fromDer(signatureBinary).ok
    /\ fromDer(signatureBinary).err # "Unparsed DER bytes"
    /\ Throws("asn1")
    /\ locals' = [locals EXCEPT !.ran = Append(@, "asn1")]
    /\ UNCHANGED << sig, signatureBinary, verdict, docVars, otherVars >>

\* lines 161-188: the navigation of the parsed structure
Asn1Navigates ==
    /\ phase = "asn1"
    /\ fromDer(signatureBinary).ok
    /\ LET asn1  == fromDer(signatureBinary).node
           found == IF ValueIsArray(asn1) THEN NavigateFields(asn1.kids, 1) ELSE << >>
       IN  IF found # << >> THEN Returns(PatternCert(found[1], "asn1")) ELSE Throws("asn1")
    /\ locals' = [locals EXCEPT !.ran = Append(@, "asn1")]
    /\ UNCHANGED << sig, signatureBinary, verdict, docVars, otherVars >>

\* Strategy 0, scanForCertificates: for (let i = 0; i < bytes.length - 100;
\* i++), line 540.  Offsets that do not show the pattern push nothing and
\* are passed over within the step.
DirectScanStep ==
    /\ phase = "direct"
    /\ LET i == NextPattern(signatureBinary, locals.i, Len(signatureBinary) - ScanMargin)
       IN  /\ i < Len(signatureBinary) - ScanMargin
           /\ locals' = [locals EXCEPT !.i = i + 1,
                                       !.foundCerts = @ \o ScanCandidate(signatureBinary, i)]
    /\ UNCHANGED << sig, signatureBinary, phase, certificate, verdict, docVars, otherVars >>

\* lines 215-249: the scan is over and found certificates
DirectScanReturns ==
    /\ phase = "direct"
    /\ NextPattern(signatureBinary, locals.i, Len(signatureBinary) - ScanMargin)
         >= Len(signatureBinary) - ScanMargin
    /\ Len(locals.foundCerts) > 0
    /\ Returns(DirectScanChoice(locals.foundCerts))
    /\ UNCHANGED << sig, signatureBinary, locals, verdict, docVars, otherVars >>

\* lines 215, 254: it found none, Strategy 1 starts
DirectScanEmpty ==
    /\ phase = "direct"
    /\ NextPattern(signatureBinary, locals.i, Len(signatureBinary) - ScanMargin)
         >= Len(signatureBinary) - ScanMargin
    /\ Len(locals.foundCerts) = 0
    /\ phase' = "a0"
    /\ locals' = [locals EXCEPT !.i = 0]
    /\ UNCHANGED << sig, signatureBinary, certificate, verdict, docVars, otherVars >>

\* the A0 tags the for loop of line 254 has still to meet
A0Tags ==
    {q \in locals.i..(Len(signatureBinary) - A0Margin - 1) : ByteAt(signatureBinary, q) = 160}

\* lines 254-292: the loop reaches an A0 tag and enters its section
SectionEnter ==
    /\ phase = "a0"
    /\ A0Tags # {}
    /\ LET i   == CHOOSE q \in A0Tags : \A k \in A0Tags : q <= k
           sec == SectionBounds(signatureBinary, i)
       IN  locals' = [locals EXCEPT !.i = i, !.scanPos = sec.contentStart,
                                    !.sectionEnd = sec.sectionEnd]
    /\ phase' = "walk"
    /\ UNCHANGED << sig, signatureBinary, certificate, verdict, docVars, otherVars >>

\* lines 254, 473: no A0 tag is left, Strategy 2 starts
SectionsDone ==
    /\ phase = "a0"
    /\ A0Tags = {}
    /\ phase' = "final"
    /\ locals' = [locals EXCEPT !.i = 0]
    /\ UNCHANGED << sig, signatureBinary, certificate, verdict, docVars, otherVars >>

\* lines 294-295, 462-464: the byte at scanPos is not a SEQUENCE tag
WalkSkip ==
    /\ phase = "walk"
    /\ WalkContinues(signatureBinary, locals.scanPos, locals.sectionEnd)
    /\ ByteAt(signatureBinary, locals.scanPos) # 48
    /\ locals' = [locals EXCEPT !.scanPos = @ + 1]
    /\ UNCHANGED << sig, signatureBinary, phase, certificate, verdict, docVars, otherVars >>

\* the while loop stands at a SEQUENCE tag
AtSequence ==
    /\ phase = "walk"
    /\ WalkContinues(signatureBinary, locals.scanPos, locals.sectionEnd)
    /\ ByteAt(signatureBinary, locals.scanPos) = 48

\* lines 328-333, 351-359: the SEQUENCE or one of its elements is returned
WalkReturns ==
    /\ AtSequence
    /\ LET t == SequenceTest(signatureBinary, locals.scanPos)
       IN  t.kind = "cert" /\ Returns(t)
    /\ UNCHANGED << sig, signatureBinary, locals, verdict, docVars, otherVars >>

\* lines 334-366: more than three elements, none a certificate: the raw
\* scan of the structure starts
WalkNested ==
    /\ AtSequence
    /\ LET t == SequenceTest(signatureBinary, locals.scanPos)
       IN  /\ t.kind = "scan"
           /\ locals' = [locals EXCEPT !.rawPos = t.structStart,
                                       !.structEnd = t.structEnd,
                                       !.foundCerts = << >>]
    /\ phase' = "nested"
    /\ UNCHANGED << sig, signatureBinary, certificate, verdict, docVars, otherVars >>

\* lines 453-461: not a certificate, scanPos += seqLengthBytes + seqLength
WalkNext ==
    /\ AtSequence
    /\ LET t == SequenceTest(signatureBinary, locals.scanPos)
       IN  /\ t.kind = "next"
           /\ locals' = [locals EXCEPT !.scanPos = t.scanPos]
    /\ UNCHANGED << sig, signatureBinary, phase, certificate, verdict, docVars, otherVars >>

\* lines 300, 461, 294: the length byte lies beyond the buffer, scanPos
\* becomes NaN and the while loop ends
WalkNaN ==
    /\ AtSequence
    /\ SequenceTest(signatureBinary, locals.scanPos).kind = "exit"
    /\ phase' = "a0"
    /\ locals' = [locals EXCEPT !.i = @ + 1]
    /\ UNCHANGED << sig, signatureBinary, certificate, verdict, docVars, otherVars >>

\* lines 294, 467-469: the section is exhausted, the for loop goes on
WalkDone ==
    /\ phase = "walk"
    /\ ~WalkContinues(signatureBinary, locals.scanPos, locals.sectionEnd)
    /\ phase' = "a0"
    /\ locals' = [locals EXCEPT !.i = @ + 1]
    /\ UNCHANGED << sig, signatureBinary, certificate, verdict, docVars, otherVars >>

\* lines 368-406: for (let rawPos = structStart; rawPos < structEnd - 100;
\* rawPos++), followed from pattern to pattern
NestedStep ==
    /\ phase = "nested"
    /\ LET rawPos == NextPattern(signatureBinary, locals.rawPos,
                                 locals.structEnd - NestedMargin)
       IN  /\ rawPos < locals.structEnd - NestedMargin
           /\ locals' = [locals EXCEPT
                             !.rawPos = rawPos + 1,
                             !.foundCerts = @ \o NestedCandidate(signatureBinary, rawPos,
                                                                 locals.scanPos)]
    /\ UNCHANGED << sig, signatureBinary, phase, certificate, verdict, docVars, otherVars >>

\* lines 409-450: the raw scan is over and found certificates
NestedReturns ==
    /\ phase = "nested"
    /\ NextPattern(signatureBinary, locals.rawPos, locals.structEnd - NestedMargin)
         >= locals.structEnd - NestedMargin
    /\ Len(locals.foundCerts) > 0
    /\ Returns(NestedScanChoice(locals.foundCerts))
    /\ UNCHANGED << sig, signatureBinary, locals, verdict, docVars, otherVars >>

\* lines 452, 461: it found none, the walk moves past the structure
NestedEmpty ==
    /\ phase = "nested"
    /\ NextPattern(signatureBinary, locals.rawPos, locals.structEnd - NestedMargin)
         >= locals.structEnd - NestedMargin
    /\ Len(locals.foundCerts) = 0
    /\ phase' = "walk"
    /\ locals' = [locals EXCEPT !.scanPos = locals.structEnd]
    /\ UNCHANGED << sig, signatureBinary, certificate, verdict, docVars, otherVars >>

\* Strategy 2, lines 473-519: the slice at the next pattern is not returned
FinalStep ==
    /\ phase = "final"
    /\ LET i == NextPattern(signatureBinary, locals.i, Len(signatureBinary) - FinalMargin)
       IN  /\ i < Len(signatureBinary) - FinalMargin
           /\ FinalCandidate(signatureBinary, i) = << >>
           /\ locals' = [locals EXCEPT !.i = i + 1]
    /\ UNCHANGED << sig, signatureBinary, phase, certificate, verdict, docVars, otherVars >>

\* lines 497-515: it is returned
FinalReturns ==
    /\ phase = "final"
    /\ LET i == NextPattern(signatureBinary, locals.i, Len(signatureBinary) - FinalMargin)
       IN  /\ i < Len(signatureBinary) - FinalMargin
           /\ FinalCandidate(signatureBinary, i) # << >>
           /\ Returns(PatternCert(FinalCandidate(signatureBinary, i)[1], "final"))
           /\ locals' = [locals EXCEPT !.i = i]
    /\ UNCHANGED << sig, signatureBinary, verdict, docVars, otherVars >>

\* lines 522-523: no strategy found a certificate
FinalThrows ==
    /\ phase = "final"
    /\ NextPattern(signatureBinary, locals.i, Len(signatureBinary) - FinalMargin)
         >= Len(signatureBinary) - FinalMargin
    /\ Throws("pattern")
    /\ UNCHANGED << sig, signatureBinary, locals, verdict, docVars, otherVars >>

\* lines 46-69: the caller's test of the certificate returned
TestVerdict(r) ==
    IF ~r.ok THEN "parse error"
    ELSE IF hasAadhaarDataSignature(r.details) THEN "found"
    ELSE "no Aadhaar data"

Test ==
    /\ phase = "returned"
    /\ verdict' = TestVerdict(parseCertificateFromBuffer(certificate.cert))
    /\ phase' = "tested"
    /\ UNCHANGED << sig, signatureBinary, locals, certificate, docVars, otherVars >>

NextSignature ==
    \/ StructuredReturns
    \/ StructuredEmpty
    \/ StructuredThrows
    \/ Asn1Unparsed
    \/ Asn1Throws
    \/ Asn1Navigates
    \/ DirectScanStep
    \/ DirectScanReturns
    \/ DirectScanEmpty
    \/ SectionEnter
    \/ SectionsDone
    \/ WalkSkip
    \/ WalkReturns
    \/ WalkNested
    \/ WalkNext
    \/ WalkNaN
    \/ WalkDone
    \/ NestedStep
    \/ NestedReturns
    \/ NestedEmpty
    \/ FinalStep
    \/ FinalReturns
    \/ FinalThrows
    \/ Test

SpecSignature == InitSignature /\ [][NextSignature]_vars

(***************************************************************************)
(* Properties of extractCertificateFromPKCS7 and of the test of its        *)
(* certificate.                                                            *)
(***************************************************************************)
\* the call has returned a certificate
Returned == phase \in {"returned", "tested"}

\* the certificate bytes parse into a qualifying record
QualifyingCertificate(buffer) ==
    /\ parseCertificateFromBuffer(buffer).ok
    /\ Qualifying(parseCertificateFromBuffer(buffer).details)

\* the members of the certificate set the structured decode exposes, as DER
CertificateSet(pkcs7Binary) ==
    IF Pkcs7Parsed(fromDer(pkcs7Binary)).ok
    THEN [k \in 1..Len(Pkcs7Parsed(fromDer(pkcs7Binary)).certificates) |->
            certificateToDer(Pkcs7Parsed(fromDer(pkcs7Binary)).certificates[k])]
    ELSE << >>

\* C2: when the structured decode exposes a certificate set, every member
\* is evaluated: if a member yields a qualifying record, the certificate
\* the caller tests is the first such member, also when it is not the first
\* member of the set.
C2_EveryMemberEvaluated ==
    (phase = "tested" /\ certificate.by = "pkcs7") =>
        \A k \in 1..Len(CertificateSet(signatureBinary)) :
            (/\ QualifyingCertificate(CertificateSet(signatureBinary)[k])
             /\ \A j \in 1..(k - 1) :
                    ~QualifyingCertificate(CertificateSet(signatureBinary)[j]))
            => (certificate.cert = CertificateSet(signatureBinary)[k] /\ verdict = "found")

\* C4: the caller's test finds Aadhaar data exactly in the qualifying
\* records; the direct scan and the nested raw scan return the first of
\* their certificates whose record is qualifying, and fall back to their
\* other choice exactly when no record is qualifying.
C4_SamePredicateEverywhere ==
    /\ phase = "tested" =>
          (verdict = "found" <=> QualifyingCertificate(certificate.cert))
    /\ (Returned /\ certificate.by \in {"direct", "nested"}) =>
          \E k \in 1..Len(locals.foundCerts) :
              /\ certificate.cert = locals.foundCerts[k].buffer
              /\ QualifyingCertificate(locals.foundCerts[k].buffer)
              /\ \A j \in 1..(k - 1) : ~QualifyingCertificate(locals.foundCerts[j].buffer)
    /\ (Returned /\ certificate.by \in {"direct-first", "nested-largest"}) =>
          \A k \in 1..Len(locals.foundCerts) :
              ~QualifyingCertificate(locals.foundCerts[k].buffer)

\* the nested raw scan returned a certificate whose only Aadhaar field is
\* the pincode, and the caller's test found it
C4_Witness ==
    /\ phase = "tested"
    /\ certificate.by = "nested"
    /\ verdict = "found"
    /\ parseCertificateFromBuffer(certificate.cert).details.pincode # NA
    /\ parseCertificateFromBuffer(certificate.cert).details.tpin = NA
    /\ parseCertificateFromBuffer(certificate.cert).details.gender = NA
    /\ parseCertificateFromBuffer(certificate.cert).details.yob = NA

\* the strategies a call enters, in the order it enters them
StrategyOrder == << "pkcs7", "asn1", "pattern" >>

\* the strategy a returned certificate comes from
StrategyOf(by) == IF by \in {"pkcs7", "asn1"} THEN by ELSE "pattern"

\* C5: the strategies are entered in the order structured decode, ASN.1
\* navigation, pattern scan, each only after the one before it failed, and a
\* returned certificate comes from the last strategy entered: after a
\* structured decode that yields a certificate no fallback is entered.
C5_StrategyOrder ==
    /\ \E n \in 0..3 : locals.ran = SubSeq(StrategyOrder, 1, n)
    /\ Len(locals.ran) >= 2 => ~Pkcs7Parsed(fromDer(signatureBinary)).ok
    /\ Len(locals.ran) >= 3 => ~fromDer(signatureBinary).ok
    /\ Returned =>
          /\ locals.ran # << >>
          /\ StrategyOf(certificate.by) = locals.ran[Len(locals.ran)]

\* a certificate returned by the pattern scan after both other strategies
\* failed
C5_Witness ==
    /\ Returned /\ certificate.by = "direct"
    /\ locals.ran = << "pkcs7", "asn1", "pattern" >>
    /\ ~Pkcs7Parsed(fromDer(signatureBinary)).ok

\* C6: extractCertificateFromPKCS7 throws only after every strategy has been
\* entered.
C6_FailureAfterAllStrategies ==
    phase = "thrown" => locals.ran = StrategyOrder

\* C7: every certificate extractCertificateFromPKCS7 returns decodes as a
\* SEQUENCE with exactly three top-level elements.
C7_ExactlyThreeElements ==
    Returned =>
        /\ fromDer(certificate.cert).ok
        /\ fromDer(certificate.cert).node.type = TypeSequence
        /\ Len(fromDer(certificate.cert).node.kids) = 3

\* the bytes of a 30 82 or 30 83 header at 0-based offset i, and the length
\* they encode
PatternHeader(bytes, i) == IF ByteAt(bytes, i + 1) = 130 THEN 4 ELSE 5

PatternLength(bytes, i) ==
    IF ByteAt(bytes, i + 1) = 130
    THEN ByteAt(bytes, i + 2) * 256 + ByteAt(bytes, i + 3)
    ELSE ByteAt(bytes, i + 2) * 65536 + ByteAt(bytes, i + 3) * 256 + ByteAt(bytes, i + 4)

\* the slice of header + L bytes at offset i
PatternSlice(bytes, i) ==
    SubSeq(bytes, i + 1, i + PatternHeader(bytes, i) + PatternLength(bytes, i))

\* the offset holds an admissible candidate
Admissible(bytes, i) ==
    /\ ByteAt(bytes, i) = 48
    /\ ByteAt(bytes, i + 1) \in {130, 131}
    /\ i + PatternHeader(bytes, i) <= Len(bytes)
    /\ 500 <= PatternLength(bytes, i)
    /\ PatternLength(bytes, i) <= 10000
    /\ i + PatternHeader(bytes, i) + PatternLength(bytes, i) <= Len(bytes)
    /\ fromDer(PatternSlice(bytes, i)).ok
    /\ fromDer(PatternSlice(bytes, i)).node.constructed
    /\ Len(fromDer(PatternSlice(bytes, i)).node.kids) = 3

AdmissibleOffsets(bytes) == {i \in 0..(Len(bytes) - 1) : Admissible(bytes, i)}

\* scanForCertificates has returned and locals.foundCerts holds its result
DirectScanOver ==
    \/ Returned /\ certificate.by \in {"direct", "direct-first"}
    \/ phase = "a0" /\ locals.i = 0

\* C8: scanForCertificates returns one candidate for each admissible offset
\* and no other, each with the header + L bytes at its offset, in ascending
\* order of offset.
C8_ScanReturnsAdmissible ==
    DirectScanOver =>
        /\ {locals.foundCerts[k].offset : k \in 1..Len(locals.foundCerts)}
             = AdmissibleOffsets(signatureBinary)
        /\ \A k \in 1..Len(locals.foundCerts) :
              /\ locals.foundCerts[k].buffer
                   = PatternSlice(signatureBinary, locals.foundCerts[k].offset)
              /\ locals.foundCerts[k].size = Len(locals.foundCerts[k].buffer)
        /\ \A k \in 1..(Len(locals.foundCerts) - 1) :
              locals.foundCerts[k].offset < locals.foundCerts[k + 1].offset

\* the scan of a blob holding a candidate of length 499 and one of length
\* 500 has returned the second alone
C8_Witness ==
    /\ DirectScanOver
    /\ Len(locals.foundCerts) = 1
    /\ PatternLength(signatureBinary, locals.foundCerts[1].offset) = 500
    /\ \E i \in 0..(Len(signatureBinary) - 1) :
          /\ ByteAt(signatureBinary, i) = 48
          /\ ByteAt(signatureBinary, i + 1) = 130
          /\ PatternLength(signatureBinary, i) = 499

\* a scan of the pattern fallback has chosen among the candidates it found,
\* none of which yields a qualifying record
NoneQualifies ==
    /\ Returned
    /\ certificate.by \in {"direct", "direct-first", "nested", "nested-largest"}
    /\ Len(locals.foundCerts) > 0
    /\ \A k \in 1..Len(locals.foundCerts) :
          ~QualifyingCertificate(locals.foundCerts[k].buffer)

\* the index of the first of the largest candidates
LargestIndex(foundCerts) ==
    CHOOSE k \in 1..Len(foundCerts) :
        /\ \A j \in 1..Len(foundCerts) : foundCerts[j].size <= foundCerts[k].size
        /\ \A j \in 1..(k - 1) : foundCerts[j].size < foundCerts[k].size

\* C9 as claimed: when candidates were found and none qualifies, the
\* certificate returned is one of the largest size among them.
C9_LargestReturned ==
    NoneQualifies =>
        \A k \in 1..Len(locals.foundCerts) :
            locals.foundCerts[k].size <= Len(certificate.cert)

\* C9 as amended: when candidates were found and none qualifies, the direct
\* scan returns the first candidate in scan order and the nested raw scan
\* the first of the largest candidates.
C9_FirstOrLargestReturned ==
    NoneQualifies =>
        /\ certificate.by \in {"direct-first", "nested-largest"}
        /\ certificate.by = "direct-first" =>
              certificate.cert = locals.foundCerts[1].buffer
        /\ certificate.by = "nested-largest" =>
              certificate.cert = locals.foundCerts[LargestIndex(locals.foundCerts)].buffer

\* the direct scan found two certificates without Aadhaar data and returned
\* the first, which is the smaller
C9_Witness ==
    /\ NoneQualifies
    /\ certificate.by = "direct-first"
    /\ Len(locals.foundCerts) = 2
    /\ locals.foundCerts[1].size < locals.foundCerts[2].size
    /\ certificate.cert = locals.foundCerts[1].buffer

\* one more iteration of a scan loop moves its position forward
ScanAdvances ==
    /\ (phase = "direct" /\ phase' = "direct") => locals'.i > locals.i
    /\ (phase = "walk" /\ phase' = "walk") => locals'.scanPos > locals.scanPos
    /\ (phase = "nested" /\ phase' = "nested") => locals'.rawPos > locals.rawPos
    /\ (phase = "final" /\ phase' = "final") => locals'.i > locals.i

\* C10: every iteration of the direct scan, of the walk over an A0 section,
\* of the nested raw scan and of the final scan strictly advances the scan
\* position, so no scan visits a position twice.
C10_ScanLoopsAdvance == [][ScanAdvances]_vars

(***************************************************************************)
(* The identity decoders applied to one optional text each:                *)
(* CertificateParser.getBirthYear, getGenderInfo and getPinCode, and the   *)
(* getPinCode of ReadAadhaarCertDetails.java that the parser was ported    *)
(* from.                                                                   *)
(***************************************************************************)
MaxTextLen == 5

\* the characters texts are made of: 0 1 9 x F m - and a space
TextAlphabet == {48, 49, 57, 120, 70, 109, 45, 32}

\* 1990T, 1985t5, 560001, 0x10, +5, abc, 12abc, 19x0M
ExtraTexts ==
    { << 49, 57, 57, 48, 84 >>, << 49, 57, 56, 53, 116, 53 >>,
      << 53, 54, 48, 48, 48, 49 >>, << 48, 120, 49, 48 >>, << 43, 53 >>,
      << 97, 98, 99 >>, << 49, 50, 97, 98, 99 >>, << 49, 57, 120, 48, 77 >> }

TextsUpTo(n) == UNION {[1..k -> TextAlphabet] : k \in 0..n}

\* a text, or the undefined of an attribute the subject does not carry
OptionalTexts == TextsUpTo(MaxTextLen) \cup ExtraTexts \cup {Absent}

\* Integer.parseInt(s) of Java for a non-null s: an optional sign, then
\* decimal digits only, within the range of int; anything else throws
\* NumberFormatException
RECURSIVE JavaDigits(_, _)
JavaDigits(t, acc) ==
    IF t = << >> THEN [nan |-> FALSE, val |-> acc]
    ELSE IF ~IsDigit(Head(t)) THEN [nan |-> TRUE, val |-> 0]
    ELSE IF acc > (2147483647 - (Head(t) - 48)) \div 10 THEN [nan |-> TRUE, val |-> 0]
    ELSE JavaDigits(Tail(t), acc * 10 + (Head(t) - 48))

JavaSigned(neg, n) == IF n.nan \/ ~neg THEN n ELSE [nan |-> FALSE, val |-> 0 - n.val]

IntegerParseInt(s) ==
    IF s = << >> THEN [nan |-> TRUE, val |-> 0]
    ELSE IF Head(s) \in {43, 45}
         THEN IF Tail(s) = << >> THEN [nan |-> TRUE, val |-> 0]
              ELSE JavaSigned(Head(s) = 45, JavaDigits(Tail(s), 0))
    ELSE JavaDigits(s, 0)

\* ReadAadhaarCertDetails.getPinCode
ReadAadhaarCertDetailsGetPinCode(postalCode) ==
    IF postalCode # Absent /\ NumberAbove(IntegerParseInt(postalCode), 0)
    THEN postalCode
    ELSE NA

\* StringUtils.isNotBlank: not null, not empty, not white space only
\* (Character.isWhitespace, for the characters below 128)
IsNotBlank(s) ==
    /\ s # Absent
    /\ \E k \in 1..Len(s) : s[k] \notin {9, 10, 11, 12, 13, 28, 29, 30, 31, 32}

\* ReadAadhaarCertDetails.getBirthYear: substring(0, 4) throws on a shorter
\* text, and every exception is ignored
ReadAadhaarCertDetailsGetBirthYear(dnQualifier) ==
    IF IsNotBlank(dnQualifier) /\ Len(dnQualifier) >= 4
       /\ NumberAbove(IntegerParseInt(SubSeq(dnQualifier, 1, 4)), 1900)
    THEN SubSeq(dnQualifier, 1, 4)
    ELSE NA

\* ReadAadhaarCertDetails.getGenderInfo
ReadAadhaarCertDetailsGetGenderInfo(dnQualifier) ==
    IF IsNotBlank(dnQualifier) /\ Len(dnQualifier) >= 5
       /\ dnQualifier[5] \in {77, 109, 70, 102, 84, 116}
    THEN << IF dnQualifier[5] >= 97 THEN dnQualifier[5] - 32 ELSE dnQualifier[5] >>
    ELSE NA

InitDecoder ==
    /\ input \in OptionalTexts
    /\ applied = "none"
    /\ output = << >>
    /\ IdleDocument
    /\ IdleSignature
    /\ IdleCaller

ApplyBirthYear ==
    /\ applied = "none"
    /\ applied' = "getBirthYear"
    /\ output' = getBirthYear(input)
    /\ UNCHANGED << input, docVars, sigVars, callVars >>

ApplyGenderInfo ==
    /\ applied = "none"
    /\ applied' = "getGenderInfo"
    /\ output' = getGenderInfo(input)
    /\ UNCHANGED << input, docVars, sigVars, callVars >>

ApplyPinCode ==
    /\ applied = "none"
    /\ applied' = "getPinCode"
    /\ output' = getPinCode(input)
    /\ UNCHANGED << input, docVars, sigVars, callVars >>

ApplyJavaPinCode ==
    /\ applied = "none"
    /\ applied' = "ReadAadhaarCertDetails.getPinCode"
    /\ output' = ReadAadhaarCertDetailsGetPinCode(input)
    /\ UNCHANGED << input, docVars, sigVars, callVars >>

NextDecoder ==
    \/ ApplyBirthYear
    \/ ApplyGenderInfo
    \/ ApplyPinCode
    \/ ApplyJavaPinCode

SpecDecoder == InitDecoder /\ [][NextDecoder]_vars

(***************************************************************************)
(* Properties of the identity decoders.                                    *)
(***************************************************************************)
AllDigits(t) == \A k \in 1..Len(t) : t[k] >= 48 /\ t[k] <= 57

\* the number four decimal digits denote
Year(t) == (t[1] - 48) * 1000 + (t[2] - 48) * 100 + (t[3] - 48) * 10 + (t[4] - 48)

Missing(t) == t = Absent

\* C14: getBirthYear gives 'NA' for a missing value and for a text shorter
\* than 4 characters; otherwise it gives the first 4 characters exactly when
\* they are an integer greater than 1900, else 'NA'.  So a result other than
\* 'NA' is four decimal digits denoting a year in 1901..9999.
C14_BirthYearTotal ==
    applied = "getBirthYear" =>
        /\ (Missing(input) \/ Len(input) < 4) => output = NA
        /\ (~Missing(input) /\ Len(input) >= 4) =>
              output = (IF AllDigits(SubSeq(input, 1, 4)) /\ Year(input) > 1900
                        THEN SubSeq(input, 1, 4) ELSE NA)
        /\ output # NA =>
              Len(output) = 4 /\ AllDigits(output) /\ Year(output) \in 1901..9999

\* a qualifier of exactly 4 characters, too short for a gender, yields a year
C14_Witness ==
    /\ applied = "getBirthYear"
    /\ ~Missing(input) /\ Len(input) = 4
    /\ output = input
    /\ getGenderInfo(input) = NA

\* the letters getGenderInfo accepts, with their upper case
GenderLetters == (77 :> 77) @@ (109 :> 77) @@ (70 :> 70) @@ (102 :> 70) @@ (84 :> 84) @@ (116 :> 84)

\* C15: getGenderInfo gives the upper case of the 5th character exactly when
\* the qualifier has at least 5 characters and the 5th is one of M, m, F, f,
\* T, t; in every other case it gives 'NA'.  The result is one of 'M', 'F',
\* 'T', 'NA', whatever the year part is.
C15_GenderInfoTotal ==
    applied = "getGenderInfo" =>
        /\ output = (IF ~Missing(input) /\ Len(input) >= 5 /\ input[5] \in DOMAIN GenderLetters
                     THEN << GenderLetters[input[5]] >> ELSE NA)
        /\ output \in { << 77 >>, << 70 >>, << 84 >>, NA }

\* a lower-case gender letter after a year part that is no year
C15_Witness ==
    /\ applied = "getGenderInfo"
    /\ ~Missing(input) /\ Len(input) >= 5
    /\ input[5] = 109
    /\ output = << 77 >>
    /\ getBirthYear(input) = NA

\* the text is a decimal integer greater than zero: an optional sign, then
\* digits only
PositiveInteger(t) ==
    /\ ~Missing(t) /\ t # << >>
    /\ LET digits == IF Head(t) = 43 THEN Tail(t) ELSE t
       IN  /\ digits # << >>
           /\ AllDigits(digits)
           /\ \E k \in 1..Len(digits) : digits[k] # 48

\* C16: getPinCode gives its input unchanged when the input is a positive
\* integer, and 'NA' for every other input: a missing value, a text that is
\* no integer (one with non-digit characters included), zero and negative
\* numbers.  This holds of the parser's getPinCode and of the getPinCode of
\* ReadAadhaarCertDetails.
C16_PinCodePositiveInteger ==
    applied \in {"getPinCode", "ReadAadhaarCertDetails.getPinCode"} =>
        output = (IF PositiveInteger(input) THEN input ELSE NA)

(***************************************************************************)
(* The three callers that feed a file into extraction:                     *)
(* BatchPdfProcessor.processSinglePDF, the /api/parse-certificate handler, *)
(* and EpakFixSheetGenerator.extractAadhaarData.  A file is the bytes it   *)
(* starts with and the /Contents matches that follow them.                 *)
(***************************************************************************)
MaxCallerSigs == 2

PdfMagic == << 37, 80, 68, 70, 45 >>          \* "%PDF-"
TextHead == << 72, 101, 108, 108, 111 >>      \* "Hello"

\* PDFCertificateExtractor.isPDF
isPDF(buffer) == Len(buffer) >= 5 /\ SubSeq(buffer, 1, 5) = PdfMagic

CallerBlobs ==
    {"rsaSigner", "emptyCertSet", "ecTpin", "smallYob", "tinyCert", "elementLong",
     "unparsable", "negativeLength"}

CallerDocuments == UNION {[1..n -> CallerBlobs] : n \in 0..MaxCallerSigs}

\* signed or unsigned PDF files, text files that hold the same /Contents
\* entries without being PDF, and certificate files
Files ==
    {[head |-> h, matches |-> ms] : h \in {PdfMagic, TextHead}, ms \in CallerDocuments}
    \cup {[head |-> toDer(c), matches |-> << >>] : c \in {CertSignerRsa, CertTpinEc}}

NoFile == [head |-> << >>, matches |-> << >>]

\* "/Contents <" hex ">" and a line feed
ContentsEntry(hex) ==
    << 47, 67, 111, 110, 116, 101, 110, 116, 115, 32, 60 >> \o hex \o << 62, 10 >>

RECURSIVE FileEntries(_)
FileEntries(ms) ==
    IF ms = << >> THEN << >>
    ELSE ContentsEntry(SignatureHex[Head(ms)]) \o FileEntries(Tail(ms))

\* all the bytes of the file
FileBytes(f) == f.head \o FileEntries(f.matches)

InitCaller ==
    /\ entryPoint \in {"batch", "upload", "fixsheet"}
    /\ pdfBuffer \in Files
    /\ callStage = "start"
    /\ callResult = [kind |-> "none"]
    /\ IdleDocument
    /\ IdleSignature
    /\ IdleDecoder

\* the call of extractCertificateFromPDF(pdfBuffer)
CallExtraction ==
    /\ callStage' = "extracting"
    /\ pc' = "start"
    /\ matches' = pdfBuffer.matches
    /\ UNCHANGED << sigIndex, result, log, entryPoint, pdfBuffer, callResult, sigVars, decVars >>

Finish(r) ==
    /\ callStage' = "done"
    /\ callResult' = r
    /\ UNCHANGED << entryPoint, pdfBuffer, docVars, sigVars, decVars >>

\* the result object of processSinglePDF; << >> is null
BatchFailure(message) ==
    [kind |-> "result", success |-> FALSE, aadhaarDetails |-> << >>, error |-> << message >>]

BatchParsed(r) ==
    IF r.ok
    THEN [kind |-> "result", success |-> TRUE, aadhaarDetails |-> << r.details >>, error |-> << >>]
    ELSE BatchFailure("Failed to parse certificate")

\* processSinglePDF, lines 69-72: the file is no PDF
BatchNotPdf ==
    /\ entryPoint = "batch" /\ callStage = "start"
    /\ ~isPDF(pdfBuffer.head)
    /\ Finish(BatchFailure("File is not a valid PDF"))

\* lines 69-77
BatchExtracts ==
    /\ entryPoint = "batch" /\ callStage = "start"
    /\ isPDF(pdfBuffer.head)
    /\ CallExtraction

\* lines 78-80
BatchExtractFails ==
    /\ entryPoint = "batch" /\ callStage = "extracting"
    /\ pc = "thrown"
    /\ Finish(BatchFailure("Failed to extract certificate"))

\* lines 82-108
BatchParses ==
    /\ entryPoint = "batch" /\ callStage = "extracting"
    /\ pc = "returned"
    /\ Finish(BatchParsed(parseCertificateFromBuffer(result.cert)))

\* the JSON answer of /api/parse-certificate
UploadAnswer(status, r, fromPdf) ==
    IF r.ok
    THEN [kind |-> "response", status |-> status, success |-> TRUE,
          aadhaarDetails |-> << r.details >>, error |-> << >>, extractedFromPDF |-> fromPdf]
    ELSE [kind |-> "response", status |-> 500, success |-> FALSE,
          aadhaarDetails |-> << >>, error |-> << r.err >>, extractedFromPDF |-> FALSE]

\* START.bat lines 609-613 and 628-643: no PDF, the upload itself is parsed
UploadDirect ==
    /\ entryPoint = "upload" /\ callStage = "start"
    /\ ~isPDF(pdfBuffer.head)
    /\ Finish(UploadAnswer(200, parseCertificateFromBuffer(FileBytes(pdfBuffer)), FALSE))

\* lines 613-617
UploadExtracts ==
    /\ entryPoint = "upload" /\ callStage = "start"
    /\ isPDF(pdfBuffer.head)
    /\ CallExtraction

\* lines 620-625
UploadExtractFails ==
    /\ entryPoint = "upload" /\ callStage = "extracting"
    /\ pc = "thrown"
    /\ Finish([kind |-> "response", status |-> 400, success |-> FALSE,
               aadhaarDetails |-> << >>,
               error |-> << "Failed to extract certificate from PDF" >>,
               extractedFromPDF |-> FALSE])

\* lines 628-643
UploadParses ==
    /\ entryPoint = "upload" /\ callStage = "extracting"
    /\ pc = "returned"
    /\ Finish(UploadAnswer(200, parseCertificateFromBuffer(result.cert), TRUE))

\* what extractAadhaarData returns: the record, or the record of MANUALs
FixSheetData(r) ==
    IF r.ok THEN [kind |-> "details", aadhaarData |-> << r.details >>]
    ELSE [kind |-> "manual", aadhaarData |-> << >>]

\* extractAadhaarData, part_002 lines 406-408: no look at the first bytes
FixSheetExtracts ==
    /\ entryPoint = "fixsheet" /\ callStage = "start"
    /\ CallExtraction

\* lines 414-428
FixSheetExtractFails ==
    /\ entryPoint = "fixsheet" /\ callStage = "extracting"
    /\ pc = "thrown"
    /\ Finish([kind |-> "manual", aadhaarData |-> << >>])

\* lines 409-428
FixSheetParses ==
    /\ entryPoint = "fixsheet" /\ callStage = "extracting"
    /\ pc = "returned"
    /\ Finish(FixSheetData(parseCertificateFromBuffer(result.cert)))

\* extractCertificateFromPDF at work inside a caller
Extracting ==
    \/ callStage = "extracting" /\ NoSignature
    \/ callStage = "extracting" /\ EnterLoop
    \/ callStage = "extracting" /\ SignatureFound
    \/ callStage = "extracting" /\ SignatureNoAadhaar
    \/ callStage = "extracting" /\ SignatureParseError
    \/ callStage = "extracting" /\ SignatureExtractionError
    \/ callStage = "extracting" /\ SignatureHangs
    \/ callStage = "extracting" /\ FallbackReturns
    \/ callStage = "extracting" /\ FallbackThrows

NextCaller ==
    \/ BatchNotPdf
    \/ BatchExtracts
    \/ BatchExtractFails
    \/ BatchParses
    \/ UploadDirect
    \/ UploadExtracts
    \/ UploadExtractFails
    \/ UploadParses
    \/ FixSheetExtracts
    \/ FixSheetExtractFails
    \/ FixSheetParses
    \/ Extracting

SpecCaller == InitCaller /\ [][NextCaller]_vars

(***************************************************************************)
(* Properties of the callers.                                              *)
(***************************************************************************)
\* the caller answered that the file is no PDF, and nothing else
RejectedAsNotPdf ==
    /\ callStage = "done"
    /\ callResult.kind \in {"result", "response"}
    /\ ~callResult.success
    /\ callResult.error = << "File is not a valid PDF" >>

\* C11: a file whose first five bytes are not %PDF- is rejected as no PDF
\* by each of the three callers, before extractCertificateFromPDF looks for
\* signatures and before any certificate is decoded.
C11_NonPdfRejected ==
    (callStage # "start" /\ ~isPDF(pdfBuffer.head)) =>
        RejectedAsNotPdf /\ pc = "idle" /\ log = << >>

\* processSinglePDF's result is a success with details and no error, or a
\* failure with an error and no details
ExactlyOneOutcome(r) ==
    \/ r.success /\ Len(r.aadhaarDetails) = 1 /\ r.error = << >>
    \/ ~r.success /\ r.aadhaarDetails = << >> /\ Len(r.error) = 1

\* C13: whatever the file holds, processSinglePDF comes to its return: the
\* extraction inside it ends, nothing is thrown out of it, and the result
\* it returns is exactly one of success-with-details and failure-with-error.
C13_AlwaysReturnsOneOutcome ==
    entryPoint = "batch" =>
        /\ pc # "hung"
        /\ callStage \in {"start", "extracting", "done"}
        /\ callStage = "done" => callResult.kind = "result" /\ ExactlyOneOutcome(callResult)

\* the bytes of the one certificate a signature blob holds, header and
\* length bytes included, as they stand in the blob
SoleCertificate ==
    [ecTpin      |-> toDer(CertTpinEc),
     smallYob    |-> toDer(SmallYobEc),
     tinyCert    |-> toDer(TinyCaEc),
     elementLong |-> LongFormCertificate(SmallTpinEc)]

\* the file's only signature was decoded by extractCertificateByPattern
SoleSignatureByPattern ==
    /\ Len(pdfBuffer.matches) = 1
    /\ pdfBuffer.matches[1] \in DOMAIN SoleCertificate
    /\ Extraction[pdfBuffer.matches[1]].by \notin {"pkcs7", "asn1"}
    /\ pc = "returned"

\* C18: when the only signature of a document is decoded by the byte-pattern
\* fallback, the certificate handed over is the certificate's own bytes as
\* they stand in the signature, and the record processSinglePDF returns is
\* the record parseCertificateFromBuffer gives on those bytes.
C18_FallbackHandsOverCertificateBytes ==
    SoleSignatureByPattern =>
        /\ result.cert = SoleCertificate[pdfBuffer.matches[1]]
        /\ (entryPoint = "batch" /\ callStage = "done") =>
              callResult = BatchParsed(parseCertificateFromBuffer(SoleCertificate[pdfBuffer.matches[1]]))

(***************************************************************************)
(* CertificateParser.parseCertificateFromBuffer applied to one well-formed *)
(* certificate, given by its key algorithm, its issuer and the attributes  *)
(* of its subject.                                                         *)
(***************************************************************************)
TextIssuerTpin == << 90, 90, 57, 57 >>                 \* "ZZ99"
TextIssuerState == << 77, 72 >>                        \* "MH"
TextIssuerQualifier == << 50, 48, 48, 49, 84 >>        \* "2001T"
TextIssuerPostal == << 49, 49, 48, 48, 48, 49 >>       \* "110001"

\* an issuer name with CN and O only, and one that also carries the
\* attributes the identity fields are read from
IssuerNames ==
    [plain    |-> << Rdn(OidCN, << 67, 65 >>), Rdn(OidO, << 79, 114, 103 >>) >>,
     identity |-> << Rdn(OidCN, << 67, 65 >>), Rdn(OidO, << 79, 114, 103 >>),
                     Rdn(OidT, TextIssuerTpin), Rdn(OidST, TextIssuerState),
                     Rdn(OidDnQualifier, TextIssuerQualifier),
                     Rdn(OidPostalCode, TextIssuerPostal) >>]

KeyOids == [rsa |-> OidRsa, ec |-> OidEc]

\* the subjects: each attribute absent or present
Subjects ==
    [CN : {Absent, TextRavi},
     T : {Absent, TextAB12},
     ST : {Absent, TextKA},
     dnQualifier : {Absent, Text1990F, Text1985, TextXXXXm},
     postalCode : {Absent, Text560001}]

RdnIfPresent(oid, value) == IF value = Absent THEN << >> ELSE << Rdn(oid, value) >>

SubjectRdns(subject) ==
    RdnIfPresent(OidCN, subject.CN) \o RdnIfPresent(OidT, subject.T)
    \o RdnIfPresent(OidST, subject.ST)
    \o RdnIfPresent(OidDnQualifier, subject.dnQualifier)
    \o RdnIfPresent(OidPostalCode, subject.postalCode)

\* Certificate with the issuer chosen
CertificateIssuedBy(issuer, keyOid, subject) ==
    Cons(TypeSequence, <<
        Cons(TypeSequence, <<
            Prim(TypeInteger, << 33 >>),
            AlgId(OidRsa),
            Cons(TypeSequence, issuer),
            Cons(TypeSequence, << UtcTime(NotBeforeText), UtcTime(NotAfterText) >>),
            Cons(TypeSequence, subject),
            Cons(TypeSequence, << AlgId(keyOid), Prim(TypeBitString, << 0, 1 >>) >>) >>),
        AlgId(OidRsa),
        Prim(TypeBitString, Zeros(16)) >>)

CertificateInputs == [key : DOMAIN KeyOids, issuer : DOMAIN IssuerNames, subject : Subjects]

\* the DER file of the certificate
CertificateBuffer(c) ==
    toDer(CertificateIssuedBy(IssuerNames[c.issuer], KeyOids[c.key], SubjectRdns(c.subject)))

InitCertificate ==
    /\ input \in CertificateInputs
    /\ applied = "none"
    /\ output = << >>
    /\ IdleDocument
    /\ IdleSignature
    /\ IdleCaller

ParseCertificate ==
    /\ applied = "none"
    /\ applied' = "parseCertificateFromBuffer"
    /\ output' = << parseCertificateFromBuffer(CertificateBuffer(input)) >>
    /\ UNCHANGED << input, docVars, sigVars, callVars >>

NextCertificate == ParseCertificate

SpecCertificate == InitCertificate /\ [][NextCertificate]_vars

(***************************************************************************)
(* Properties of parseCertificateFromBuffer.                               *)
(***************************************************************************)
\* the field of the record for an attribute of the subject
FieldOf(value) == IF value = Absent THEN NA ELSE value

\* C17: for a well-formed certificate whose subject carries T = t, ST = s
\* and dnQualifier = q, parseCertificateFromBuffer returns a record with
\* tpin = t, state = s, yob = getBirthYear(q) and gender = getGenderInfo(q);
\* an attribute the subject lacks gives 'NA', whatever the issuer carries.
C17_SubjectFieldsDecoded ==
    applied = "parseCertificateFromBuffer" =>
        /\ output[1].ok
        /\ output[1].details.tpin = FieldOf(input.subject.T)
        /\ output[1].details.state = FieldOf(input.subject.ST)
        /\ output[1].details.yob = getBirthYear(input.subject.dnQualifier)
        /\ output[1].details.gender = getGenderInfo(input.subject.dnQualifier)

(***************************************************************************)
(* The places of extractCertificateByPattern and scanForCertificates that  *)
(* read the length of an element, applied to one tag followed by the       *)
(* length bytes given.                                                     *)
(***************************************************************************)
MaxRestLen == 4

\* first length bytes: short forms, the indefinite form, long forms of 1..5
FirstLengthBytes == {0, 5, 127, 128, 129, 130, 131, 132, 133}

RestBytes == {0, 1, 35, 127, 128, 255}

LengthInputs ==
    { << >> } \cup
    { << b >> \o rest : b \in FirstLengthBytes,
                        rest \in UNION {[1..k -> RestBytes] : k \in 0..MaxRestLen} }

\* lines 259-281: the A0 element at i; which branch read the length, the
\* bytes of tag and length, and the content length the walk is given
SectionLength(bytes, i) ==
    IF ByteAt(bytes, i + 1) = 128
    THEN [form |-> "indefinite", headerBytes |-> 2, length |-> Len(bytes) - (i + 2)]
    ELSE IF ByteAt(bytes, i + 1) >= 128
    THEN [form |-> "long",
          headerBytes |-> 2 + (ByteAt(bytes, i + 1) % 128),
          length |-> ReadLength(bytes, i + 2, ByteAt(bytes, i + 1) % 128, 0)]
    ELSE [form |-> "short", headerBytes |-> 2, length |-> ByteAt(bytes, i + 1)]

\* lines 299-312: the SEQUENCE at scanPos; seqLength is undefined when the
\* length byte lies beyond the buffer
SequenceHeader(bytes, scanPos) ==
    IF ByteAt(bytes, scanPos + 1) # Undef /\ ByteAt(bytes, scanPos + 1) >= 128
    THEN [form |-> "long",
          headerBytes |-> 2 + (ByteAt(bytes, scanPos + 1) % 128),
          length |-> ReadLength(bytes, scanPos + 2, ByteAt(bytes, scanPos + 1) % 128, 0)]
    ELSE [form |-> "short", headerBytes |-> 2, length |-> ByteAt(bytes, scanPos + 1)]

\* lines 543-548 (and 372-377, 479-484): the 30 82/83 pattern at i
ScanHeader(bytes, i) ==
    [form |-> "long",
     headerBytes |-> 2 + (ByteAt(bytes, i + 1) % 128),
     length |-> ReadLength(bytes, i + 2, ByteAt(bytes, i + 1) % 128, 0)]

InitLength ==
    /\ input \in LengthInputs
    /\ applied = "none"
    /\ output = << >>
    /\ IdleDocument
    /\ IdleSignature
    /\ IdleCaller

\* the A0 tag at offset 0 of a buffer the loop of line 254 enters
ReadSectionLength ==
    /\ applied = "none"
    /\ 0 < Len(<< 160 >> \o input) - A0Margin
    /\ applied' = "section"
    /\ output' = << SectionLength(<< 160 >> \o input, 0) >>
    /\ UNCHANGED << input, docVars, sigVars, callVars >>

\* the SEQUENCE tag at offset 0
ReadSequenceLength ==
    /\ applied = "none"
    /\ applied' = "sequence"
    /\ output' = << SequenceHeader(<< 48 >> \o input, 0) >>
    /\ UNCHANGED << input, docVars, sigVars, callVars >>

\* the pattern 30 82 or 30 83 at offset 0
ReadScanLength ==
    /\ applied = "none"
    /\ IsCertPattern(<< 48 >> \o input, 0)
    /\ applied' = "scan"
    /\ output' = << ScanHeader(<< 48 >> \o input, 0) >>
    /\ UNCHANGED << input, docVars, sigVars, callVars >>

NextLength ==
    \/ ReadSectionLength
    \/ ReadSequenceLength
    \/ ReadScanLength

SpecLength == InitLength /\ [][NextLength]_vars

(***************************************************************************)
(* Properties of the length readers.                                       *)
(***************************************************************************)
\* C19: where the length of an A0 element or of a SEQUENCE is read, the
\* length byte 80 is taken as the indefinite form, and never as a content
\* length of 0 after a header of 2 bytes, which is what the length byte 00
\* means.
C19_IndefiniteNotZeroLength ==
    (applied \in {"section", "sequence"} /\ input # << >> /\ input[1] = 128) =>
        /\ output[1].form = "indefinite"
        /\ ~(output[1].headerBytes = 2 /\ output[1].length = 0)

RECURSIVE StripZeros(_)
StripZeros(bs) == IF bs # << >> /\ Head(bs) = 0 THEN StripZeros(Tail(bs)) ELSE bs

\* the unsigned big-endian value is below 2^31
FitsInt32(bs) ==
    Len(StripZeros(bs)) <= 3 \/ (Len(StripZeros(bs)) = 4 /\ Head(StripZeros(bs)) < 128)

RECURSIVE UnsignedValue(_, _)
UnsignedValue(bs, acc) ==
    IF bs = << >> THEN acc ELSE UnsignedValue(Tail(bs), acc * 256 + Head(bs))

\* the N bytes after a long-form length byte, as far as the buffer holds them
FollowingBytes(lengthBytes) ==
    SubSeq(lengthBytes, 2,
           IF (lengthBytes[1] % 128) + 1 <= Len(lengthBytes)
           THEN (lengthBytes[1] % 128) + 1 ELSE Len(lengthBytes))

\* C20: for a long-form length byte 80 + N with N >= 1, each place that
\* reads a length (the A0 element, the SEQUENCE in its content, the 30 82/83
\* patterns) takes 2 + N bytes as the header and decodes the unsigned
\* big-endian value of the N bytes that follow; the value decoded is never
\* negative, also when N >= 4 and the first of the bytes is 80 or more, and
\* when some of the N bytes lie beyond the end of the buffer.
C20_LongFormUnsigned ==
    (applied # "none" /\ input # << >> /\ input[1] > 128) =>
        /\ output[1].headerBytes = 2 + (input[1] % 128)
        /\ output[1].length >= 0
        /\ Len(FollowingBytes(input)) = input[1] % 128 =>
              /\ FitsInt32(FollowingBytes(input))
              /\ output[1].length = UnsignedValue(StripZeros(FollowingBytes(input)), 0)

(***************************************************************************)
(* The hex text of one /Contents entry: the sigRegex of line 19 matches    *)
(* the entry when everything between < and > is hex digits, and line 37    *)
(* hands the matched text to hexToBytes.                                   *)
(***************************************************************************)
MaxHexLen == 4

\* the characters between < and >: 0 9 A F a f, and g, which is no hex digit
ContentsAlphabet == {48, 57, 65, 70, 97, 102, 103}

ContentsTexts == UNION {[1..k -> ContentsAlphabet] : k \in 0..MaxHexLen}

\* the group ([0-9A-Fa-f]+) followed by >
IsHexRun(t) == t # << >> /\ \A k \in 1..Len(t) : HexDigit(t[k]) >= 0

InitContents ==
    /\ input \in ContentsTexts
    /\ applied = "none"
    /\ output = << >>
    /\ IdleDocument
    /\ IdleSignature
    /\ IdleCaller

\* lines 19-20 and 33-37: the entry is a signature candidate and is decoded
ContentsDecoded ==
    /\ applied = "none"
    /\ IsHexRun(input)
    /\ applied' = "hexToBytes"
    /\ output' = hexToBytes(input)
    /\ UNCHANGED << input, docVars, sigVars, callVars >>

\* lines 19-20: the entry is not matched and is no signature candidate
ContentsNotMatched ==
    /\ applied = "none"
    /\ ~IsHexRun(input)
    /\ applied' = "unmatched"
    /\ output' = << >>
    /\ UNCHANGED << input, docVars, sigVars, callVars >>

NextContents ==
    \/ ContentsDecoded
    \/ ContentsNotMatched

SpecContents == InitContents /\ [][NextContents]_vars

\* C21: the raw bytes of every signature candidate come from a hex text of
\* even length and are exactly half as many as the text has characters; a
\* text of odd length is never decoded
C21_BytesFromEvenLengthHex ==
    applied = "hexToBytes" =>
        /\ IsHexRun(input)
        /\ Len(input) % 2 = 0
        /\ 2 * Len(output) = Len(input)

(***************************************************************************)
(* parseCertificateFromBuffer and its two paths, the manual walk of        *)
(* extractFromAsn1 and the standard path of certificateFromAsn1 and        *)
(* extractAadhaarSignDetails, applied to certificates whose TBSCertificate *)
(* varies field by field.                                                  *)
(***************************************************************************)
GeneralizedText ==                                     \* 20500101000000Z
    << 50, 48, 53, 48, 48, 49, 48, 49, 48, 48, 48, 48, 48, 48, 90 >>

\* the serial number: one content byte, or an INTEGER without content
TbsSerials == [one |-> << 33 >>, empty |-> << >>]

\* the signature AlgorithmIdentifier: with NULL parameters, as for
\* sha256WithRSAEncryption, or the OID alone, as for ecdsa-with-SHA256
TbsAlgorithms ==
    [params |-> AlgId(OidRsa),
     bare   |-> Cons(TypeSequence, << Prim(TypeOid, OidEc) >>)]

\* the issuer: an empty Name, or CN and O in two RDNs
TbsIssuers == [none |-> << >>, plain |-> IssuerNames.plain]

\* the validity: two UTCTimes, a GeneralizedTime as notAfter, or one time
TbsValidities ==
    [utc         |-> << UtcTime(NotBeforeText), UtcTime(NotAfterText) >>,
     generalized |-> << UtcTime(NotBeforeText), Prim(TypeGeneralizedTime, GeneralizedText) >>,
     single      |-> << UtcTime(NotAfterText) >>]

\* the subject: an empty Name, one attribute per RDN, an RDN of two
\* attributes, an attribute type given twice, an attribute of empty value
TbsSubjects ==
    [none        |-> << >>,
     full        |-> SubjectFull,
     multiValued |-> << Cons(TypeSet, << Cons(TypeSequence, << Prim(TypeOid, OidCN), Prim(19, TextRavi) >>),
                                          Cons(TypeSequence, << Prim(TypeOid, OidST), Prim(19, TextKA) >>) >>),
                        Rdn(OidDnQualifier, Text1990F) >>,
     repeated    |-> << Rdn(OidCN, TextRavi), Rdn(OidCN, TextKA), Rdn(OidST, TextKA) >>,
     emptyValue  |-> << Rdn(OidCN, << >>), Rdn(OidST, TextKA) >>]

\* fields after subjectPublicKeyInfo: a subjectUniqueID [2] and one more
\* SEQUENCE of SETs
TbsExtras ==
    << [tagClass |-> 128, type |-> 2, constructed |-> FALSE,
        kids |-> << >>, content |-> << 0, 255 >>],
       Cons(TypeSequence, << Rdn(OidCN, TextIssuerTpin), Rdn(OidO, TextIssuerState) >>) >>

TbsInputs ==
    [key : DOMAIN KeyOids, serial : DOMAIN TbsSerials, algorithm : DOMAIN TbsAlgorithms,
     issuer : DOMAIN TbsIssuers, validity : DOMAIN TbsValidities,
     subject : DOMAIN TbsSubjects, extras : BOOLEAN]

TbsCertificate(c) ==
    Cons(TypeSequence, <<
        Cons(TypeSequence,
             << Prim(TypeInteger, TbsSerials[c.serial]),
                TbsAlgorithms[c.algorithm],
                Cons(TypeSequence, TbsIssuers[c.issuer]),
                Cons(TypeSequence, TbsValidities[c.validity]),
                Cons(TypeSequence, TbsSubjects[c.subject]),
                Cons(TypeSequence, << AlgId(KeyOids[c.key]), Prim(TypeBitString, << 0, 1 >>) >>) >>
             \o (IF c.extras THEN TbsExtras ELSE << >>)),
        AlgId(OidRsa),
        Prim(TypeBitString, Zeros(4)) >>)

\* the DER file of the certificate
TbsBuffer(c) == toDer(TbsCertificate(c))

InitTbs ==
    /\ input \in TbsInputs
    /\ applied = "none"
    /\ output = << >>
    /\ IdleDocument
    /\ IdleSignature
    /\ IdleCaller

\* parseCertificateFromBuffer on the DER file
ParseDer ==
    /\ applied = "none"
    /\ applied' = "parseCertificateFromBuffer"
    /\ output' = << parseCertificateFromBuffer(TbsBuffer(input)) >>
    /\ UNCHANGED << input, docVars, sigVars, callVars >>

\* extractFromAsn1 on the decoded certificate
ManualWalk ==
    /\ applied = "none"
    /\ applied' = "extractFromAsn1"
    /\ output' = << extractFromAsn1(fromDer(TbsBuffer(input)).node) >>
    /\ UNCHANGED << input, docVars, sigVars, callVars >>

StandardDetails(c) ==
    IF c.ok THEN [ok |-> TRUE, details |-> extractAadhaarSignDetails(c.cert)] ELSE c

\* certificateFromAsn1 and extractAadhaarSignDetails on the decoded certificate
StandardPath ==
    /\ applied = "none"
    /\ applied' = "extractAadhaarSignDetails"
    /\ output' = << StandardDetails(certificateFromAsn1(fromDer(TbsBuffer(input)).node)) >>
    /\ UNCHANGED << input, docVars, sigVars, callVars >>

\* forge.util.encode64: three bytes give four characters, = fills the last
\* group
Encode64Group(b) ==
    IF Len(b) = 1
    THEN << Base64Char(b[1] \div 4), Base64Char((b[1] % 4) * 16), 61, 61 >>
    ELSE IF Len(b) = 2
    THEN << Base64Char(b[1] \div 4), Base64Char((b[1] % 4) * 16 + b[2] \div 16),
            Base64Char((b[2] % 16) * 4), 61 >>
    ELSE << Base64Char(b[1] \div 4), Base64Char((b[1] % 4) * 16 + b[2] \div 16),
            Base64Char((b[2] % 16) * 4 + b[3] \div 64), Base64Char(b[3] % 64) >>

\* the groups one after the other, the bytes halved at a group boundary
RECURSIVE Encode64(_)
Encode64(b) ==
    IF b = << >> THEN << >>
    ELSE IF Len(b) <= 3 THEN Encode64Group(b)
    ELSE Encode64(SubSeq(b, 1, 3 * ((Len(b) + 2) \div 6)))
         \o Encode64(SubSeq(b, 3 * ((Len(b) + 2) \div 6) + 1, Len(b)))

\* lines of 64 characters, ended by CR LF
RECURSIVE Lines64(_)
Lines64(t) ==
    IF Len(t) <= 64 THEN t \o << 13, 10 >>
    ELSE SubSeq(t, 1, 64) \o << 13, 10 >> \o Lines64(SubSeq(t, 65, Len(t)))

\* the PEM file of a certificate, as forge.pem.encode and openssl write it
PemFile(der) == PemBegin \o << 13, 10 >> \o Lines64(Encode64(der)) \o PemEnd \o << 13, 10 >>

\* parseCertificateFromBuffer on the PEM file of the same certificate
ParsePem ==
    /\ applied = "none"
    /\ applied' = "parseCertificateFromBuffer of PEM"
    /\ output' = << parseCertificateFromBuffer(PemFile(TbsBuffer(input))) >>
    /\ UNCHANGED << input, docVars, sigVars, callVars >>

NextTbs ==
    \/ ParseDer
    \/ ParsePem
    \/ ManualWalk
    \/ StandardPath

SpecTbs == InitTbs /\ [][NextTbs]_vars

(***************************************************************************)
(* Properties of the manual walk and of the choice between the paths.      *)
(***************************************************************************)
\* the number of TBSCertificate fields that are a SEQUENCE starting with a SET
NameFields(c) ==
    (IF c.issuer = "none" THEN 0 ELSE 1) + (IF c.subject = "none" THEN 0 ELSE 1)
    + (IF c.extras THEN 1 ELSE 0)

\* C22: when the TBSCertificate holds fewer than two SEQUENCE-of-SET fields,
\* so that the manual walk finds no Subject/Issuer pair, extractFromAsn1
\* fails; it returns no record
C22_NoNamePairFails ==
    (applied = "extractFromAsn1" /\ NameFields(input) < 2) => ~output[1].ok

(***************************************************************************)
(* Calls in succession: extractCertificateFromPDF and                      *)
(* parseCertificateFromBuffer are called one after the other on buffers    *)
(* the caller chooses, and every finished call is recorded with the buffer *)
(* it was given.  `input` is the caller's buffer, `matches` what the       *)
(* running call reads, `output` the finished calls.                        *)
(***************************************************************************)
MaxCalls == 3

\* the documents of a session: none, one or two signatures, among them one
\* of each outcome of a signature
SessionDocuments ==
    { << >>, << "rsaSigner" >>, << "rsaCa", "rsaSigner" >>, << "rsaCa", "rsaCa" >>,
      << "unparsable", "rsaSigner" >>, << "emptyCertSet" >>, << "negativeLength" >> }

\* the certificate files of a session
SessionCertificates ==
    { TbsBuffer([key |-> k, serial |-> "one", algorithm |-> "bare", issuer |-> "plain",
                 validity |-> "utc", subject |-> "full", extras |-> FALSE]) :
        k \in DOMAIN KeyOids }

InitSession ==
    /\ matches = << >> /\ pc = "done" /\ sigIndex = 0
    /\ result = NoResult /\ log = << >>
    /\ input = << >>
    /\ applied = "none"
    /\ output = << >>
    /\ IdleSignature
    /\ IdleCaller

SessionCallKeepsIndex ==
    /\ pc = "done"
    /\ Len(output) < MaxCalls
    /\ \E d \in SessionDocuments : input' = d /\ matches' = d
    /\ applied' = "extractCertificateFromPDF"
    /\ pc' = "start"
    /\ result' = NoResult
    /\ log' = << >>
    /\ UNCHANGED << sigIndex, output, sigVars, callVars >>

\* lines 13-20 and 31: a call begins; pdfString, matches and sigIndex are
\* locals of the call, made anew from its argument
SessionCall ==
    /\ pc = "done"
    /\ Len(output) < MaxCalls
    /\ \E d \in SessionDocuments : input' = d /\ matches' = d
    /\ applied' = "extractCertificateFromPDF"
    /\ pc' = "start"
    /\ sigIndex' = 0
    /\ result' = NoResult
    /\ log' = << >>
    /\ UNCHANGED << output, sigVars, callVars >>

\* lines 59-63, 78 and 79-81: the call returns or throws to its caller
SessionReturn ==
    /\ pc \in {"returned", "thrown"}
    /\ output' = Append(output, [fn |-> applied, buffer |-> input, after |-> matches,
                                 outcome |-> result])
    /\ pc' = "done"
    /\ applied' = "none"
    /\ UNCHANGED << matches, sigIndex, result, log, input, sigVars, callVars >>

\* certificateParser.js lines 46-96: one call of parseCertificateFromBuffer
SessionParse ==
    /\ pc = "done"
    /\ Len(output) < MaxCalls
    /\ \E c \in SessionCertificates :
          output' = Append(output, [fn |-> "parseCertificateFromBuffer", buffer |-> c,
                                    after |-> c,
                                    outcome |-> parseCertificateFromBuffer(c)])
    /\ UNCHANGED << docVars, input, applied, sigVars, callVars >>

\* the steps of the running extractCertificateFromPDF call
SessionRuns ==
    \/ applied = "extractCertificateFromPDF" /\ NoSignature
    \/ applied = "extractCertificateFromPDF" /\ EnterLoop
    \/ applied = "extractCertificateFromPDF" /\ SignatureFound
    \/ applied = "extractCertificateFromPDF" /\ SignatureNoAadhaar
    \/ applied = "extractCertificateFromPDF" /\ SignatureParseError
    \/ applied = "extractCertificateFromPDF" /\ SignatureExtractionError
    \/ applied = "extractCertificateFromPDF" /\ SignatureHangs
    \/ applied = "extractCertificateFromPDF" /\ FallbackReturns
    \/ applied = "extractCertificateFromPDF" /\ FallbackThrows

NextSession ==
    \/ SessionCall
    \/ SessionRuns
    \/ SessionReturn
    \/ SessionParse

SpecSession == InitSession /\ [][NextSession]_vars

MaxTokens == 3

Tokens == {"sig", "detached", "sha1", "cades", "byteRange", "hexA", "hexB", "indirect", "gap"}

PdfTexts == UNION {[1..n -> Tokens] : n \in 0..MaxTokens}

\* what pattern.extract hands on: the hex text, or 'N M R'
TokenData ==
    [hexA |-> << 51, 48, 56, 50 >>, hexB |-> << 65, 48 >>,
     indirect |-> << 53, 32, 48, 32, 82 >>]

\* the regular expressions: the marker each begins with ("none" when it
\* begins at /Contents) and the /Contents form it ends with
sigRegex == [name |-> "sigRegex", marker |-> "none", contents |-> "hex"]

patternsBySpecificity ==
    << [name |-> "Aadhaar eSign", marker |-> "cades", contents |-> "hex"],
       [name |-> "PKCS#7 detached", marker |-> "detached", contents |-> "hex"],
       [name |-> "PKCS#7 SHA1", marker |-> "sha1", contents |-> "hex"],
       [name |-> "/Sig dictionary", marker |-> "sig", contents |-> "hex"],
       [name |-> "/ByteRange with /Contents", marker |-> "byteRange", contents |-> "hex"],
       [name |-> "Standard /Contents hex", marker |-> "none", contents |-> "hex"],
       [name |-> "Indirect /Contents reference", marker |-> "none", contents |-> "indirect"] >>

\* analyzePdf.js lines 34-70, in the order of the array
patterns ==
    << [name |-> "Standard /Contents hex", marker |-> "none", contents |-> "hex"],
       [name |-> "Indirect /Contents reference", marker |-> "none", contents |-> "indirect"],
       [name |-> "/ByteRange with /Contents", marker |-> "byteRange", contents |-> "hex"],
       [name |-> "/Sig dictionary", marker |-> "sig", contents |-> "hex"],
       [name |-> "PKCS#7 detached", marker |-> "detached", contents |-> "hex"],
       [name |-> "PKCS#7 SHA1", marker |-> "sha1", contents |-> "hex"],
       [name |-> "Aadhaar eSign", marker |-> "cades", contents |-> "hex"] >>

IsContents(token, form) ==
    IF form = "hex" THEN token \in {"hexA", "hexB"} ELSE token = "indirect"

\* the /Contents tokens a match beginning at token i can end with: the
\* token itself without a marker, else the hex entries after the marker
\* with no gap between
MatchEnds(doc, p, i) ==
    IF p.marker = "none"
    THEN IF IsContents(doc[i], p.contents) THEN {i} ELSE {}
    ELSE IF doc[i] # p.marker THEN {}
    ELSE {j \in (i + 1)..Len(doc) :
             /\ IsContents(doc[j], p.contents)
             /\ \A k \in (i + 1)..(j - 1) : doc[k] # "gap"}

\* the greedy [\s\S]{0,1000} takes the last of them
Farthest(ends) == CHOOSE j \in ends : \A k \in ends : k <= j

\* pdfString.matchAll(regex): the matches from left to right, each search
\* resuming behind the previous match
RECURSIVE MatchAll(_, _, _, _)
MatchAll(doc, p, from, acc) ==
    IF from > Len(doc) THEN acc
    ELSE IF MatchEnds(doc, p, from) = {} THEN MatchAll(doc, p, from + 1, acc)
    ELSE MatchAll(doc, p, Farthest(MatchEnds(doc, p, from)) + 1,
                  Append(acc, [pattern |-> p.name, position |-> from,
                               data |-> TokenData[doc[Farthest(MatchEnds(doc, p, from))]]]))

\* analyzePdf.js lines 75-100: foundSignatures after the loop over patterns
RECURSIVE FoundSignatures(_, _, _)
FoundSignatures(doc, ps, acc) ==
    IF ps = << >> THEN acc
    ELSE FoundSignatures(doc, Tail(ps), acc \o MatchAll(doc, Head(ps), 1, << >>))

InitAnalyze ==
    /\ input \in PdfTexts
    /\ applied = "none"
    /\ output = << >>
    /\ IdleDocument
    /\ IdleSignature
    /\ IdleCaller

\* analyzePdf.js
AnalyzePdf ==
    /\ applied = "none"
    /\ applied' = "analyzePdf"
    /\ output' = FoundSignatures(input, patterns, << >>)
    /\ UNCHANGED << input, docVars, sigVars, callVars >>

\* extractCertificateFromPDF lines 19-20: the candidates of its loop
FindSignatures ==
    /\ applied = "none"
    /\ applied' = "extractCertificateFromPDF"
    /\ output' = MatchAll(input, sigRegex, 1, << >>)
    /\ UNCHANGED << input, docVars, sigVars, callVars >>

NextAnalyze ==
    \/ AnalyzePdf
    \/ FindSignatures

SpecAnalyze == InitAnalyze /\ [][NextAnalyze]_vars

\* the rank of a pattern in the order of specificity
Specificity ==
    [n \in {"Aadhaar eSign"} |-> 1]
    @@ [n \in {"PKCS#7 detached", "PKCS#7 SHA1"} |-> 2]
    @@ [n \in {"/Sig dictionary"} |-> 3]
    @@ [n \in {"Standard /Contents hex", "/ByteRange with /Contents", "sigRegex"} |-> 4]
    @@ [n \in {"Indirect /Contents reference"} |-> 5]

\* the order the amended statement names: generic /Contents hex, indirect
\* reference, /ByteRange, /Sig dictionary, PKCS#7 detached, PKCS#7 sha1,
\* Aadhaar subfilter
PatternIndex(name) ==
    CASE name = "Standard /Contents hex" -> 1
      [] name = "Indirect /Contents reference" -> 2
      [] name = "/ByteRange with /Contents" -> 3
      [] name = "/Sig dictionary" -> 4
      [] name = "PKCS#7 detached" -> 5
      [] name = "PKCS#7 SHA1" -> 6
      [] name = "Aadhaar eSign" -> 7

\* the most specific marker in front of the /Contents entry at token j
MarkerRank(doc, j) ==
    IF \E i \in 1..(j - 1) : doc[i] = "cades" /\ j \in MatchEnds(doc, patternsBySpecificity[1], i)
    THEN 1
    ELSE IF \E i \in 1..(j - 1) : \E k \in 2..3 : j \in MatchEnds(doc, patternsBySpecificity[k], i)
    THEN 2
    ELSE IF \E i \in 1..(j - 1) : j \in MatchEnds(doc, patternsBySpecificity[4], i)
    THEN 3
    ELSE 4

\* C24 as stated: the candidates come ordered by pattern specificity,
\* Aadhaar subfilter matches first, then PKCS#7 detached and sha1, then /Sig
\* dictionaries, then generic /Contents hex blobs, indirect references
\* last; the candidates of extractCertificateFromPDF follow the same order
\* by the marker in front of each
C24_OrderedBySpecificity ==
    /\ applied = "analyzePdf" =>
          \A i \in 1..Len(output) : \A j \in (i + 1)..Len(output) :
              Specificity[output[i].pattern] <= Specificity[output[j].pattern]
    /\ applied = "extractCertificateFromPDF" =>
          \A i \in 1..Len(output) : \A j \in (i + 1)..Len(output) :
              MarkerRank(input, output[i].position) <= MarkerRank(input, output[j].position)

\* C24 (amended): analyzePdf lists its candidates pattern by pattern in the
\* order of its array, generic /Contents hex first, indirect references
\* second and the Aadhaar subfilter last, in document order within a
\* pattern; extractCertificateFromPDF takes the generic /Contents hex
\* entries alone, in document order, and an indirect reference is never
\* among the candidates it decodes
C24_OrderedByPatternArray ==
    /\ applied = "analyzePdf" =>
          \A i \in 1..Len(output) : \A j \in (i + 1)..Len(output) :
              \/ PatternIndex(output[i].pattern) < PatternIndex(output[j].pattern)
              \/ /\ output[i].pattern = output[j].pattern
                 /\ output[i].position < output[j].position
    /\ applied = "extractCertificateFromPDF" =>
          /\ \A i \in 1..Len(output) : \A j \in (i + 1)..Len(output) :
                output[i].position < output[j].position
          /\ \A i \in 1..Len(output) :
                /\ input[output[i].position] \in {"hexA", "hexB"}
                /\ output[i].data = TokenData[input[output[i].position]]
          /\ \A k \in 1..Len(input) :
                input[k] \in {"hexA", "hexB"} => \E i \in 1..Len(output) : output[i].position = k

\* an Aadhaar marker, its /Contents entry and an indirect reference: three
\* patterns report, the generic one first
C24_Witness ==
    /\ applied = "analyzePdf"
    /\ input = << "cades", "hexA", "indirect" >>
    /\ Len(output) = 3
    /\ output[1].pattern = "Standard /Contents hex"
    /\ output[2].pattern = "Indirect /Contents reference"
    /\ output[3].pattern = "Aadhaar eSign"

\* the decoded certificate of the input, and what the standard object model
\* makes of it
TbsAsn1(c) == fromDer(TbsBuffer(c)).node
TbsStandard(c) == certificateFromAsn1(TbsAsn1(c))

\* the rejections that lead to the manual walk (line 81)
FallbackMessages == {"OID is not RSA", "X509v3 Certificate"}

TbsNames(c) ==
    (IF c.issuer = "none" THEN << >> ELSE << Cons(TypeSequence, TbsIssuers[c.issuer]) >>)
    \o (IF c.subject = "none" THEN << >> ELSE << Cons(TypeSequence, TbsSubjects[c.subject]) >>)
    \o (IF c.extras THEN << TbsExtras[2] >> ELSE << >>)

NameAt(names, k) == IF k <= Len(names) THEN names[k] ELSE NullNode

\* the record built from the first INTEGER, the first name as issuer and
\* the second name as subject, each name read on its own
FirstFieldsRecord(c, endDate, subjectAttrs, issuerAttrs) ==
    Asn1Details([serial |-> bytesToHex(TbsSerials[c.serial]), validity |-> endDate],
                subjectAttrs, issuerAttrs,
                Lookup(subjectAttrs, OidDnQualifier), Lookup(subjectAttrs, OidPostalCode))

\* C26: the manual walk takes the serial number from the first INTEGER field
\* and from no later field, the issuer from the first SEQUENCE-of-SET field
\* and the subject from the second, ignores later such fields, and reads
\* the subject and issuer attributes apart from each other
C26_FirstFieldsWin ==
    applied = "extractFromAsn1" =>
        /\ output[1].ok
        /\ output[1].details =
              FirstFieldsRecord(input, output[1].details.endDate,
                                extractAsn1Attributes(NameAt(TbsNames(input), 2)).attrs,
                                extractAsn1Attributes(NameAt(TbsNames(input), 1)).attrs)

\* the notAfter of the validity field, decoded by its type
NotAfterOf(c) == TimeToDate(TbsValidities[c.validity][2])

\* C27: for a certificate whose validity holds two times, the manual walk
\* reports as expiry the notAfter of the validity field, a UTCTime or a
\* GeneralizedTime; a two-element SEQUENCE of other elements in front of
\* the validity (an AlgorithmIdentifier with parameters, an issuer of two
\* RDNs) neither supplies the expiry nor keeps the validity from being read
C27_ExpiryFromValidity ==
    (applied = "extractFromAsn1" /\ input.validity \in {"utc", "generalized"}) =>
        /\ output[1].ok
        /\ output[1].details.endDate = NotAfterOf(input)

(***************************************************************************)
(* The decoders of certificateParser.js against those of                   *)
(* ReadAadhaarCertDetails.java.                                            *)
(***************************************************************************)
\* C28: for every optional text, getPinCode, getBirthYear and getGenderInfo
\* of CertificateParser return what the methods of the same names of
\* ReadAadhaarCertDetails return
C28_DecodersMatchJava ==
    /\ applied = "getPinCode" => output = ReadAadhaarCertDetailsGetPinCode(input)
    /\ applied = "getBirthYear" => output = ReadAadhaarCertDetailsGetBirthYear(input)
    /\ applied = "getGenderInfo" => output = ReadAadhaarCertDetailsGetGenderInfo(input)

\* the fields both paths fill from the subject and issuer names
NameFieldsOfRecord(d) ==
    << d.signerName, d.tpin, d.state, d.gender, d.yob, d.pincode,
       d.issuerName, d.issuerOrganisation >>

\* C29: for a certificate the standard object model accepts, the manual walk
\* gives the same signerName, tpin, state, gender, yob, pincode, issuerName
\* and issuerOrganisation as the standard path, also for a multi-valued RDN,
\* a repeated attribute type and an empty attribute value
C29_PathsAgree ==
    (applied = "extractFromAsn1" /\ TbsStandard(input).ok) =>
        /\ output[1].ok
        /\ NameFieldsOfRecord(output[1].details) =
              NameFieldsOfRecord(extractAadhaarSignDetails(TbsStandard(input).cert))

\* C30: for every certificate that parseCertificateFromBuffer accepts as DER
\* bytes, it returns the same record when handed the PEM text of the
\* certificate, also when the key is not RSA and the record comes from the
\* manual walk
C30_PemEqualsDer ==
    (applied = "parseCertificateFromBuffer of PEM"
        /\ parseCertificateFromBuffer(TbsBuffer(input)).ok)
        => output[1] = parseCertificateFromBuffer(TbsBuffer(input))

====
